---- MODULE Spec2Model ----
(***************************************************************************)
(* A model of the build-and-submit pipeline of the Blueshift sample agent: *)
(*   - sanitizeProgramName / toKebabCase          (src/src/anchorBuilder.ts)*)
(*   - createAnchorProgram                        (src/src/anchorBuilder.ts)*)
(*   - BlueshiftClient.submitClientChallenge      (src/src/anchorBuilder.ts)*)
(* Strings that the code inspects character by character are sequences of  *)
(* one-character strings; strings it only passes around are atoms.          *)
(* Optional values (TypeScript's `T | undefined`) are sequences of length   *)
(* at most one: None is <<>>, Some(x) is <<x>>.                              *)
(***************************************************************************)
EXTENDS Integers, Sequences, FiniteSets, TLC

VARIABLES
    \* ---- sanitizeProgramName, applied to one name
    sanPc,        \* "idle" | "input" | "output"
    sanName,      \* the name given
    sanOut,       \* sanitizeProgramName(name)
    kebabOut,     \* toKebabCase(name)
    \* ---- createAnchorProgram, one record per call
    world,        \* what this run's callers and toolchain can do (fixed by Init)
    rootExists,   \* artifacts/anchor exists on disk
    now,          \* Date.now(), in milliseconds
    disk,         \* the file system below artifacts/anchor: path -> content
    pc,           \* each call's position
    options,      \* each call's CreateAnchorProgramOptions
    slug,         \* each call's slug
    scaffoldArg,  \* the project name each call passed to `anchor init`
    files,        \* each call's files array
    proc,         \* what the build subprocess of each call did (exit code, output)
    cap,          \* each call's locals across awaits (stdout, stderr, hasSo, ...)
    build,        \* each call's AnchorBuildResult, once built
    raised,       \* the error each call raised, if any
    \* ---- BlueshiftClient.submitClientChallenge, one call
    sPc,          \* "idle" | "call" | "fetching" | "done" | "raised"
    sInput,       \* the ClientSubmissionInput
    requests,     \* the requests handed to fetch, in order
    response,     \* the Response fetch resolved with
    parsed,       \* what parseJsonSafe did with it
    sResult,      \* the ClientSubmissionResponse returned
    sError,       \* the error raised
    signCount,    \* how often the wallet signed a transaction
    \* ---- BlueshiftClient's queries and submitProgramChallenge, call after call
    qPc,          \* "idle" | "ready" | "fetching" | "reading" | "returned" | "raised"
    qCount,       \* how many calls were made
    qCall,        \* the call under way: the operation and its arguments
    qLog,         \* what the calls did, in order: signatures made, requests sent
    qResponse,    \* the Response fetch resolved with, for the call under way
    qBodyRead,    \* whether the call under way read the body of its response
    qResult,      \* what the call returned
    qError,       \* the error the call raised
    \* ---- SolanaWallet: the constructor, then operations on the wallet
    wPc,          \* "idle" | "new" | "ready" | "failed"
    wSecret,      \* the secret handed to the constructor
    wAt,          \* the character of the secret bs58.decode is at
    wAcc,         \* the number bs58.decode has read so far
    wDecoded,     \* what bs58.decode made of the secret
    wallet,       \* the key pair of the wallet, once constructed
    wError,       \* the error the constructor raised
    wTx,          \* the transaction object the caller holds
    wOps,         \* how many operations were called
    wLast,        \* the last operation: its argument before and after, its output
    wSeen,        \* every operation so far, with argument and output
    \* ---- loadConfig
    cPc,          \* "idle" | "env" | "loaded" | "raised"
    cEnv,         \* process.env
    cConfig,      \* the configuration returned
    cError        \* the error raised

sanVars == <<sanPc, sanName, sanOut, kebabOut>>
buildVars == <<world, rootExists, now, disk, pc, options, slug, scaffoldArg, files,
               proc, cap, build, raised>>
submitVars == <<sPc, sInput, requests, response, parsed, sResult, sError, signCount>>
queryVars == <<qPc, qCount, qCall, qLog, qResponse, qBodyRead, qResult, qError>>
walletVars == <<wPc, wSecret, wAt, wAcc, wDecoded, wallet, wError, wTx, wOps, wLast, wSeen>>
configVars == <<cPc, cEnv, cConfig, cError>>
restVars == <<queryVars, walletVars, configVars>>
vars == <<sanVars, buildVars, submitVars, restVars>>

None == <<>>
Some(x) == <<x>>
IsSome(o) == Len(o) = 1
Get(o) == o[1]

-----------------------------------------------------------------------------
(* Strings as sequences of characters.                                      *)

LowerLetters == {"a","b","c","d","e","f","g","h","i","j","k","l","m",
                 "n","o","p","q","r","s","t","u","v","w","x","y","z"}
Digits == {"0","1","2","3","4","5","6","7","8","9"}
Whitespace == {" "}

\* The characters program names are drawn from: lower and upper case letters,
\* a digit, the underscore, white space and a symbol.
Chars == {"a", "M", "1", "_", " ", "!"}

MaxNameLen == 5

Names == UNION {[1..k -> Chars] : k \in 0..MaxNameLen}

\* String.prototype.toLowerCase on one character.
LowerChar(ch) == IF ch = "M" THEN "m" ELSE ch

ToLowerCase(s) == [i \in 1..Len(s) |-> LowerChar(s[i])]

RECURSIVE TrimStart(_)
TrimStart(s) ==
    IF s # <<>> /\ Head(s) \in Whitespace THEN TrimStart(Tail(s)) ELSE s

RECURSIVE TrimEnd(_)
TrimEnd(s) ==
    IF s # <<>> /\ s[Len(s)] \in Whitespace
    THEN TrimEnd(SubSeq(s, 1, Len(s) - 1))
    ELSE s

\* String.prototype.trim
Trim(s) == TrimEnd(TrimStart(s))

\* The character class [a-z0-9_]
InClass(ch) == ch \in LowerLetters \cup Digits \cup {"_"}

RECURSIVE SkipOutside(_)
SkipOutside(s) ==
    IF s # <<>> /\ ~InClass(Head(s)) THEN SkipOutside(Tail(s)) ELSE s

\* .replace(/[^a-z0-9_]/g, "_"): every character outside the class becomes an
\* underscore of its own.
RECURSIVE ReplaceEach(_)
ReplaceEach(s) ==
    IF s = <<>> THEN <<>>
    ELSE IF InClass(Head(s)) THEN <<Head(s)>> \o ReplaceEach(Tail(s))
    ELSE <<"_">> \o ReplaceEach(Tail(s))

\* .replace(/[^a-z0-9_]+/g, "_"): every maximal run of characters outside the
\* class becomes one underscore.
RECURSIVE ReplaceRuns(_)
ReplaceRuns(s) ==
    IF s = <<>> THEN <<>>
    ELSE IF InClass(Head(s)) THEN <<Head(s)>> \o ReplaceRuns(Tail(s))
    ELSE <<"_">> \o ReplaceRuns(SkipOutside(Tail(s)))

RECURSIVE StripLeading(_)
StripLeading(s) ==
    IF s # <<>> /\ Head(s) = "_" THEN StripLeading(Tail(s)) ELSE s

RECURSIVE StripTrailing(_)
StripTrailing(s) ==
    IF s # <<>> /\ s[Len(s)] = "_"
    THEN StripTrailing(SubSeq(s, 1, Len(s) - 1))
    ELSE s

\* .replace(/^_+|_+$/g, "")
StripEnds(s) == StripTrailing(StripLeading(s))

DefaultSlug == <<"a","n","c","h","o","r","_","p","r","o","g","r","a","m">>

\* A plausible slip: the first regular expression without its +.
sanitizeEachCharacter(name) ==
    LET cleaned == StripEnds(ReplaceEach(ToLowerCase(Trim(name))))
    IN  IF Len(cleaned) > 0 THEN cleaned ELSE DefaultSlug

\* Lines 33-40
sanitizeProgramName(name) ==
    LET cleaned == StripEnds(ReplaceRuns(ToLowerCase(Trim(name))))
    IN  IF Len(cleaned) > 0 THEN cleaned ELSE DefaultSlug

\* sanitizeProgramName(name).replace(/_/g, "-")
toKebabCase(name) ==
    LET s == sanitizeProgramName(name)
    IN  [i \in 1..Len(s) |-> IF s[i] = "_" THEN "-" ELSE s[i]]

-----------------------------------------------------------------------------
(* Buffer.prototype.toString("base64"): bytes are 0..255, the result is a   *)
(* sequence of alphabet indexes 0..63, with 64 for the padding character.   *)

RECURSIVE Base64(_)
Base64(bytes) ==
    IF Len(bytes) = 0 THEN <<>>
    ELSE IF Len(bytes) = 1 THEN
        <<bytes[1] \div 4, (bytes[1] % 4) * 16, 64, 64>>
    ELSE IF Len(bytes) = 2 THEN
        <<bytes[1] \div 4, (bytes[1] % 4) * 16 + bytes[2] \div 16,
          (bytes[2] % 16) * 4, 64>>
    ELSE
        <<bytes[1] \div 4, (bytes[1] % 4) * 16 + bytes[2] \div 16,
          (bytes[2] % 16) * 4 + bytes[3] \div 64, bytes[3] % 64>>
        \o Base64(SubSeq(bytes, 4, Len(bytes)))

-----------------------------------------------------------------------------
(* createAnchorProgram.                                                     *)
(*                                                                          *)
(* A slug `${programDirName}-${Date.now().toString(36)}-${uuid8}` is the    *)
(* record of its three parts: the kebab name has no character outside       *)
(* [a-z0-9-], the time part none outside [a-z0-9] and the random part is    *)
(* eight hexadecimal digits, so two slugs are the same string exactly when  *)
(* the three parts are the same.                                            *)
(* A path below artifacts/anchor is the record of the workspace directory   *)
(* it lies in (ws), the file it names (file) and the slug that occurs in    *)
(* its name (name): programs/<name>/src/lib.rs, programs/<name>/Cargo.toml, *)
(* target/deploy/<name>.so, target/deploy/<name>-keypair.json.              *)

Calls == {"c1", "c2"}

MaxTime == 1
NumRand == 2

Times == 0..MaxTime
\* the values of randomUUID().slice(0, 8)
Rands == 1..NumRand

\* `${programDirName}-${Date.now().toString(36)}-${randomUUID().slice(0, 8)}`
MakeSlug(dirName, t, r) == [dir |-> dirName, time |-> t, rand |-> r]

\* path.join(outputRoot, slug)
workspaceDirOf(s) == [root |-> "artifacts/anchor", slug |-> s]

\* path.join(workspaceDir, "programs", slug, "src", "lib.rs")
libRsPath(ws, s) == [ws |-> ws, file |-> "programs/<slug>/src/lib.rs", name |-> s]

\* path.join(workspaceDir, "programs", slug, "Cargo.toml")
programCargoPath(ws, s) == [ws |-> ws, file |-> "programs/<slug>/Cargo.toml", name |-> s]

\* path.join(workspaceDir, "target", "deploy", `${slug}.so`)
programSoPath(ws, s) == [ws |-> ws, file |-> "target/deploy/<slug>.so", name |-> s]

\* path.join(workspaceDir, "target", "deploy", `${slug}-keypair.json`)
keypairPath(ws, s) == [ws |-> ws, file |-> "target/deploy/<slug>-keypair.json", name |-> s]

\* path.relative(workspaceDir, p), for a path p below workspaceDir
RelativePath(ws, p) == [file |-> p.file, name |-> p.name]

\* existsSync
existsSync(d, p) == p \in DOMAIN d

\* the file system d after content was written at p
WriteAt(d, p, content) ==
    [q \in DOMAIN d \cup {p} |-> IF q = p THEN content ELSE d[q]]

\* The compiled binaries the toolchain can leave behind.
SoFiles == {<<127, 69, 76, 70>>, <<0, 255>>}

\* What a caller can pass.
FullOptions ==
    [programName : {<<"a", "_", "1">>, <<"a", " ", "1">>, <<"!">>},
     libRs : {"libA", "libB"},
     cargoToml : {"tomlA", "tomlB"}]

\* What `anchor build` can do: its exit code, its output, and the files it
\* leaves in target/deploy.
FullOutcomes ==
    [exit : {0, 1},
     out : {[stdout |-> "Compiling", stderr |-> ""],
            [stdout |-> "", stderr |-> "error[E0425]"]},
     so : {None} \cup {Some(b) : b \in SoFiles},
     keypair : BOOLEAN]

\* The runs with two calls in flight draw from fewer values.
PairOptions ==
    {[programName |-> <<"a", "_", "1">>, libRs |-> "libA", cargoToml |-> "tomlA"],
     [programName |-> <<"a", " ", "1">>, libRs |-> "libB", cargoToml |-> "tomlB"]}

PairOutcomes ==
    {[exit |-> 0, out |-> [stdout |-> "Compiling", stderr |-> ""],
      so |-> Some(<<127, 69, 76, 70>>), keypair |-> TRUE],
     [exit |-> 1, out |-> [stdout |-> "", stderr |-> "error[E0425]"],
      so |-> None, keypair |-> FALSE]}

NoCap == [stdout |-> "", stderr |-> "", hasKeypair |-> FALSE, errorMessage |-> None]

\* The AnchorBuildResult of the try block (lines 121-128).
SuccessResult(stdout, stderr, soPath, so64, kpPath) ==
    [success |-> TRUE, stdout |-> stdout, stderr |-> stderr,
     programSoPath |-> soPath, programSoBase64 |-> so64,
     keypairPath |-> kpPath, errorMessage |-> None]

\* A plausible slip: the catch block's result without the error's message.
FailureResultNoMessage(stdout, stderr, message, soPath, so64) ==
    [success |-> FALSE, stdout |-> stdout, stderr |-> stderr,
     programSoPath |-> soPath, programSoBase64 |-> so64,
     keypairPath |-> None, errorMessage |-> None]

\* The AnchorBuildResult of the catch block (lines 149-156).
FailureResult(stdout, stderr, message, soPath, so64) ==
    [success |-> FALSE, stdout |-> stdout, stderr |-> stderr,
     programSoPath |-> soPath, programSoBase64 |-> so64,
     keypairPath |-> None, errorMessage |-> message]

\* x ?? y
OrElse(o, y) == IF IsSome(o) THEN Get(o) ELSE y

Raise(c, kind) ==
    /\ pc' = [pc EXCEPT ![c] = "raised"]
    /\ raised' = [raised EXCEPT ![c] = Some(kind)]

\* Lines 57-66: the slug, the workspace directory and the scaffold command
\* started with the slug as the project name.
StartScaffold(c, name, t, r) ==
    /\ slug' = [slug EXCEPT ![c] = Some(MakeSlug(toKebabCase(name), t, r))]
    /\ scaffoldArg' = [scaffoldArg EXCEPT ![c] = slug'[c]]
    /\ now' = t
    /\ pc' = [pc EXCEPT ![c] = "scaffold"]

\* Lines 49-55, and 57-66 when the output root exists already.
Begin(c) ==
    /\ pc[c] = "start"
    /\ \E o \in world.options :
        /\ options' = [options EXCEPT ![c] = Some(o)]
        /\ IF rootExists
           THEN \E t \in now..MaxTime, r \in Rands :
                    StartScaffold(c, o.programName, t, r)
           ELSE /\ pc' = [pc EXCEPT ![c] = "mkdir"]
                /\ UNCHANGED <<slug, scaffoldArg, now>>
    /\ UNCHANGED <<world, rootExists, disk, files, proc, cap, build, raised>>
    /\ UNCHANGED <<sanVars, submitVars, restVars>>

\* Line 54 returns: mkdir(outputRoot, { recursive: true }) made the directory
\* (or found it made), or failed.
MkdirDone(c) ==
    /\ pc[c] = "mkdir"
    /\ \E ok \in BOOLEAN :
        IF ok
        THEN /\ rootExists' = TRUE
             /\ \E t \in now..MaxTime, r \in Rands :
                    StartScaffold(c, Get(options[c]).programName, t, r)
             /\ UNCHANGED raised
        ELSE /\ Raise(c, "FilesystemError")
             /\ UNCHANGED <<rootExists, slug, scaffoldArg, now>>
    /\ UNCHANGED <<world, disk, options, files, proc, cap, build>>
    /\ UNCHANGED <<sanVars, submitVars, restVars>>

workspaceDir(c) == workspaceDirOf(Get(slug[c]))

\* A plausible slip: the failure of `anchor init` is swallowed and the call
\* goes on to write the sources.
ScaffoldDoneSwallowed(c) ==
    /\ pc[c] = "scaffold"
    /\ \E ok \in BOOLEAN :
        IF ok
        THEN disk' = WriteAt(WriteAt(disk,
                        libRsPath(workspaceDir(c), Get(scaffoldArg[c])), "generated lib.rs"),
                        programCargoPath(workspaceDir(c), Get(scaffoldArg[c])), "generated Cargo.toml")
        ELSE UNCHANGED disk
    /\ pc' = [pc EXCEPT ![c] = "writeLib"]
    /\ UNCHANGED <<world, rootExists, now, options, slug, scaffoldArg, files,
                   proc, cap, build, raised>>
    /\ UNCHANGED <<sanVars, submitVars, restVars>>

\* Lines 62-82: `anchor init` returns. On success the skeleton is on disk and
\* the write of lib.rs is started; on failure the call raises.
ScaffoldDone(c) ==
    /\ pc[c] = "scaffold"
    /\ \E ok \in BOOLEAN :
        IF ok
        THEN /\ disk' = WriteAt(WriteAt(disk,
                            libRsPath(workspaceDir(c), Get(scaffoldArg[c])), "generated lib.rs"),
                            programCargoPath(workspaceDir(c), Get(scaffoldArg[c])), "generated Cargo.toml")
             /\ pc' = [pc EXCEPT ![c] = "writeLib"]
             /\ UNCHANGED raised
        ELSE /\ Raise(c, "ScaffoldFailed")
             /\ UNCHANGED disk
    /\ UNCHANGED <<world, rootExists, now, options, slug, scaffoldArg, files,
                   proc, cap, build>>
    /\ UNCHANGED <<sanVars, submitVars, restVars>>

\* A plausible slip: a failed write of lib.rs is swallowed and the call goes
\* on to Cargo.toml and the build.
WriteLibDoneSwallowed(c) ==
    /\ pc[c] = "writeLib"
    /\ \E ok \in BOOLEAN :
        IF ok
        THEN LET p == libRsPath(workspaceDir(c), Get(slug[c]))
                 content == Get(options[c]).libRs
             IN  /\ disk' = WriteAt(disk, p, content)
                 /\ files' = [files EXCEPT ![c] =
                        Append(@, [path |-> RelativePath(workspaceDir(c), p), content |-> content])]
        ELSE UNCHANGED <<disk, files>>
    /\ pc' = [pc EXCEPT ![c] = "writeCargo"]
    /\ UNCHANGED <<world, rootExists, now, options, slug, scaffoldArg, proc, cap, build,
                   raised>>
    /\ UNCHANGED <<sanVars, submitVars, restVars>>

\* Lines 82-87: writeFile(libRsPath) returns.
WriteLibDone(c) ==
    /\ pc[c] = "writeLib"
    /\ \E ok \in BOOLEAN :
        IF ok
        THEN LET p == libRsPath(workspaceDir(c), Get(slug[c]))
                 content == Get(options[c]).libRs
             IN  /\ disk' = WriteAt(disk, p, content)
                 /\ files' = [files EXCEPT ![c] =
                        Append(@, [path |-> RelativePath(workspaceDir(c), p), content |-> content])]
                 /\ pc' = [pc EXCEPT ![c] = "writeCargo"]
                 /\ UNCHANGED raised
        ELSE /\ Raise(c, "FilesystemError")
             /\ UNCHANGED <<disk, files>>
    /\ UNCHANGED <<world, rootExists, now, options, slug, scaffoldArg, proc, cap, build>>
    /\ UNCHANGED <<sanVars, submitVars, restVars>>

\* Lines 87-97: writeFile(programCargoPath) returns and `anchor build` is started.
WriteCargoDone(c) ==
    /\ pc[c] = "writeCargo"
    /\ \E ok \in BOOLEAN :
        IF ok
        THEN LET p == programCargoPath(workspaceDir(c), Get(slug[c]))
                 content == Get(options[c]).cargoToml
             IN  /\ disk' = WriteAt(disk, p, content)
                 /\ files' = [files EXCEPT ![c] =
                        Append(@, [path |-> RelativePath(workspaceDir(c), p), content |-> content])]
                 /\ pc' = [pc EXCEPT ![c] = "build"]
                 /\ UNCHANGED raised
        ELSE /\ Raise(c, "FilesystemError")
             /\ UNCHANGED <<disk, files>>
    /\ UNCHANGED <<world, rootExists, now, options, slug, scaffoldArg, proc, cap, build>>
    /\ UNCHANGED <<sanVars, submitVars, restVars>>

\* A plausible slip: a catch block that reports the failure without looking
\* for the binary.
CatchBlockNoProbe(c, execError, d) ==
    /\ build' = [build EXCEPT ![c] =
            Some(FailureResult(OrElse(execError.stdout, ""), OrElse(execError.stderr, ""),
                               Some(execError.message), None, None))]
    /\ pc' = [pc EXCEPT ![c] = "done"]
    /\ UNCHANGED cap

\* Lines 129-157, the catch block, entered with the error caught and the file
\* system d: the binary is probed again; the result is built at once when
\* there is none, and after the read otherwise.
CatchBlock(c, execError, d) ==
    LET soPath == programSoPath(workspaceDir(c), Get(slug[c]))
        hasSo == existsSync(d, soPath)
        stdout == OrElse(execError.stdout, "")
        stderr == OrElse(execError.stderr, "")
    IN  IF hasSo
        THEN /\ cap' = [cap EXCEPT ![c] =
                    [stdout |-> stdout, stderr |-> stderr, hasKeypair |-> FALSE,
                     errorMessage |-> Some(execError.message)]]
             /\ pc' = [pc EXCEPT ![c] = "readCatch"]
             /\ UNCHANGED build
        ELSE /\ build' = [build EXCEPT ![c] =
                    Some(FailureResult(stdout, stderr, Some(execError.message), None, None))]
             /\ pc' = [pc EXCEPT ![c] = "done"]
             /\ UNCHANGED cap

\* Lines 99-128, the try block after `anchor build` exited zero, with the file
\* system d: both probes; the result is built at once when there is no
\* binary, and after the read otherwise.
TryBlock(c, stdout, stderr, d) ==
    LET soPath == programSoPath(workspaceDir(c), Get(slug[c]))
        kpPath == keypairPath(workspaceDir(c), Get(slug[c]))
        hasSo == existsSync(d, soPath)
        hasKeypair == existsSync(d, kpPath)
    IN  IF hasSo
        THEN /\ cap' = [cap EXCEPT ![c] =
                    [stdout |-> stdout, stderr |-> stderr, hasKeypair |-> hasKeypair,
                     errorMessage |-> None]]
             /\ pc' = [pc EXCEPT ![c] = "readTry"]
             /\ UNCHANGED build
        ELSE /\ build' = [build EXCEPT ![c] =
                    Some(SuccessResult(stdout, stderr, None, None,
                                       IF hasKeypair THEN Some(kpPath) ELSE None))]
             /\ pc' = [pc EXCEPT ![c] = "done"]
             /\ UNCHANGED cap

\* What `anchor build`, run in workspaceDir with outcome o, leaves on disk.
AfterBuild(c, o) ==
    LET soPath == programSoPath(workspaceDir(c), Get(slug[c]))
        kpPath == keypairPath(workspaceDir(c), Get(slug[c]))
        d1 == IF IsSome(o.so) THEN WriteAt(disk, soPath, Get(o.so)) ELSE disk
    IN  IF o.keypair THEN WriteAt(d1, kpPath, "keypair.json") ELSE d1

\* Lines 94-97 return: `anchor build` exited. A zero exit resolves the promise
\* with its output; a nonzero exit rejects it with an error that carries the
\* output.
BuildDone(c) ==
    /\ pc[c] = "build"
    /\ \E o \in world.outcomes :
        /\ disk' = AfterBuild(c, o)
        /\ proc' = [proc EXCEPT ![c] =
                Some([exit |-> o.exit, stdout |-> o.out.stdout, stderr |-> o.out.stderr])]
        /\ IF o.exit = 0
           THEN TryBlock(c, o.out.stdout, o.out.stderr, disk')
           ELSE CatchBlock(c, [message |-> "Command failed: anchor build",
                               stdout |-> Some(o.out.stdout),
                               stderr |-> Some(o.out.stderr)], disk')
    /\ UNCHANGED <<world, rootExists, now, options, slug, scaffoldArg, files, raised>>
    /\ UNCHANGED <<sanVars, submitVars, restVars>>

\* Lines 117-128: readFile(programSoPath) of the try block returns. A failed
\* read is thrown inside the try block, so the catch block gets it: an error
\* with a message and neither stdout nor stderr.
ReadTryDone(c) ==
    /\ pc[c] = "readTry"
    /\ LET soPath == programSoPath(workspaceDir(c), Get(slug[c]))
       IN  \E ok \in BOOLEAN :
            IF ok
            THEN /\ build' = [build EXCEPT ![c] =
                        Some(SuccessResult(cap[c].stdout, cap[c].stderr,
                                Some(soPath), Some(Base64(disk[soPath])),
                                IF cap[c].hasKeypair
                                THEN Some(keypairPath(workspaceDir(c), Get(slug[c])))
                                ELSE None))]
                 /\ pc' = [pc EXCEPT ![c] = "done"]
                 /\ UNCHANGED cap
            ELSE CatchBlock(c, [message |-> "readFile failed",
                                stdout |-> None, stderr |-> None], disk)
    /\ UNCHANGED <<world, rootExists, now, disk, options, slug, scaffoldArg, files,
                   proc, raised>>
    /\ UNCHANGED <<sanVars, submitVars, restVars>>

\* Lines 145-156: readFile(programSoPath) of the catch block returns. A failed
\* read is thrown out of createAnchorProgram.
ReadCatchDone(c) ==
    /\ pc[c] = "readCatch"
    /\ LET soPath == programSoPath(workspaceDir(c), Get(slug[c]))
       IN  \E ok \in BOOLEAN :
            IF ok
            THEN /\ build' = [build EXCEPT ![c] =
                        Some(FailureResult(cap[c].stdout, cap[c].stderr,
                                cap[c].errorMessage,
                                Some(soPath), Some(Base64(disk[soPath]))))]
                 /\ pc' = [pc EXCEPT ![c] = "done"]
                 /\ UNCHANGED raised
            ELSE /\ Raise(c, "FilesystemError")
                 /\ UNCHANGED build
    /\ UNCHANGED <<world, rootExists, now, disk, options, slug, scaffoldArg, files,
                   proc, cap>>
    /\ UNCHANGED <<sanVars, submitVars, restVars>>

\* Lines 159-163: what a call that reached `return` gives its caller.
Returned(c) ==
    [workspaceDir |-> workspaceDir(c), files |-> files[c], build |-> build[c]]

IdleBuild ==
    /\ world = [calls |-> {}, options |-> {}, outcomes |-> {}]
    /\ rootExists = FALSE
    /\ now = 0
    /\ disk = <<>>
    /\ pc = [c \in Calls |-> "idle"]
    /\ options = [c \in Calls |-> None]
    /\ slug = [c \in Calls |-> None]
    /\ scaffoldArg = [c \in Calls |-> None]
    /\ files = [c \in Calls |-> <<>>]
    /\ proc = [c \in Calls |-> None]
    /\ cap = [c \in Calls |-> NoCap]
    /\ build = [c \in Calls |-> None]
    /\ raised = [c \in Calls |-> None]

\* The state before the calls in w.calls start, in a fresh or used output root.
InitBuildWith(w) ==
    /\ world = w
    /\ rootExists \in BOOLEAN
    /\ now \in Times
    /\ disk = <<>>
    /\ pc = [c \in Calls |-> IF c \in w.calls THEN "start" ELSE "idle"]
    /\ options = [c \in Calls |-> None]
    /\ slug = [c \in Calls |-> None]
    /\ scaffoldArg = [c \in Calls |-> None]
    /\ files = [c \in Calls |-> <<>>]
    /\ proc = [c \in Calls |-> None]
    /\ cap = [c \in Calls |-> NoCap]
    /\ build = [c \in Calls |-> None]
    /\ raised = [c \in Calls |-> None]

NextBuild ==
    \E c \in Calls :
        \/ Begin(c)
        \/ MkdirDone(c)
        \/ ScaffoldDone(c)
        \/ WriteLibDone(c)
        \/ WriteCargoDone(c)
        \/ BuildDone(c)
        \/ ReadTryDone(c)
        \/ ReadCatchDone(c)

-----------------------------------------------------------------------------
(* BlueshiftClient.submitClientChallenge.                                   *)
(*                                                                          *)
(* A JavaScript value decoded from JSON is a record: js is its kind (null,  *)
(* boolean, number, string, array, object, or undefined for a field that is *)
(* not there) and raw its text: the characters of a string, the JSON text   *)
(* of any other value. An object carries the four fields the code looks    *)
(* at; every other value has them undefined.                                *)

Val(js, raw) == [js |-> js, raw |-> raw]
Undefined == Val("undefined", "")
Str(text) == Val("string", text)

NoFields == [success |-> Undefined, results |-> Undefined,
             error |-> Undefined, message |-> Undefined]

Scalar(js, raw) == [js |-> js, raw |-> raw, fields |-> NoFields]

Object(success, results, error, message) ==
    [js |-> "object", raw |-> "",
     fields |-> [success |-> success, results |-> results,
                 error |-> error, message |-> message]]

\* The values the remote service can put in each field.
SuccessVals == {Undefined, Val("boolean", "true"), Val("boolean", "false"), Str("yes")}
ResultsVals == {Undefined, Val("array", "[]"), Val("array", "[{\"success\":true}]"),
                Val("null", "null"), Str("none")}
ErrorVals == {Undefined, Str("not_found"), Val("number", "1")}
MessageVals == {Undefined, Str("No such challenge"), Val("null", "null")}

\* The JSON documents the remote service can answer with.
Payloads ==
    {Object(a, b, c, d) : a \in SuccessVals, b \in ResultsVals,
                          c \in ErrorVals, d \in MessageVals}
    \cup {Scalar("null", "null"), Scalar("boolean", "true"), Scalar("boolean", "false"),
          Scalar("number", "7"), Scalar("number", "0"), Scalar("string", "gateway timeout"),
          Scalar("string", ""), Scalar("array", "[]"), Scalar("array", "[1]")}

\* typeof v
TypeOf(v) ==
    IF v.js \in {"null", "array", "object"} THEN "object" ELSE v.js

\* Array.isArray(v)
IsArray(v) == v.js = "array"

\* !v is false
Truthy(v) ==
    /\ v.js \notin {"null", "undefined"}
    /\ ~(v.js = "boolean" /\ v.raw = "false")
    /\ ~(v.js = "number" /\ v.raw = "0")
    /\ ~(v.js = "string" /\ v.raw = "")

FieldText(key, v) == "\"" \o key \o "\":" \o (IF v.js = "string" THEN "\"" \o v.raw \o "\"" ELSE v.raw)

Comma(a, b) == IF a = "" THEN b ELSE IF b = "" THEN a ELSE a \o "," \o b

\* JSON.stringify(v): the text of the document, the fields that are there in
\* the order success, results, error, message.
JsonStringify(v) ==
    IF v.js = "object"
    THEN LET txt(key) == IF v.fields[key].js = "undefined" THEN ""
                         ELSE FieldText(key, v.fields[key])
         IN  "{" \o Comma(Comma(txt("success"), txt("results")),
                          Comma(txt("error"), txt("message"))) \o "}"
    ELSE IF v.js = "string" THEN "\"" \o v.raw \o "\""
    ELSE v.raw

\* String(v), for a value that is no object
StringOf(v) == v.raw

\* Bodies that are no JSON document.
Garbage == {"", "<html>502 Bad Gateway</html>", "{\"success\":"}

Bodies == {JsonStringify(p) : p \in Payloads} \cup Garbage

\* JSON.parse on every body: the document, or none for a SyntaxError
ParseTable ==
    [text \in Bodies |->
        IF \E p \in Payloads : JsonStringify(p) = text
        THEN Some(CHOOSE p \in Payloads : JsonStringify(p) = text)
        ELSE None]

\* JSON.parse(text)
JsonParse(text) == ParseTable[text]

Statuses == {200, 201, 400, 404, 500}

\* response.headers.get("content-type"): none when the header is missing
ContentTypes == {None, Some("text/html"), Some("text/plain; charset=utf-8"),
                 Some("application/json"), Some("application/json; charset=utf-8")}

Responses == [status : Statuses, contentType : ContentTypes, body : DOMAIN ParseTable]

\* response.ok
ResponseOk(r) == r.status >= 200 /\ r.status <= 299

\* String.prototype.includes
Includes(str, sub) ==
    \E i \in 1..(Len(str) - Len(sub) + 1) : SubSeq(str, i, i + Len(sub) - 1) = sub

\* Lines 379-380: the content type says JSON
SaysJson(r) == Includes(OrElse(r.contentType, ""), "application/json")

\* A plausible slip: response.json() outside any try, so that a body that is
\* no JSON document makes the call throw.
parseJsonUnguarded(r) ==
    IF ~SaysJson(r)
    THEN [threw |-> None, how |-> "text",
          payload |-> Object(Undefined, Undefined, Str("Invalid response"), Str(r.body))]
    ELSE IF IsSome(JsonParse(r.body))
    THEN [threw |-> None, how |-> "json", payload |-> Get(JsonParse(r.body))]
    ELSE [threw |-> Some("SyntaxError"), how |-> "json failed", payload |-> Undefined]

\* A plausible slip: the content type is not looked at and every body is
\* parsed as JSON.
parseJsonAlways(r) ==
    IF IsSome(JsonParse(r.body))
    THEN [threw |-> None, how |-> "json", payload |-> Get(JsonParse(r.body))]
    ELSE [threw |-> None, how |-> "json failed",
          payload |-> Object(Undefined, Undefined, Str("Invalid JSON"),
                             Str("Unexpected token in JSON"))]

\* Lines 378-389: what parseJsonSafe throws (nothing: the SyntaxError of
\* response.json() is caught), how the body was read, and the payload.
parseJsonSafe(r) ==
    IF ~SaysJson(r)
    THEN [threw |-> None, how |-> "text",
          payload |-> Object(Undefined, Undefined, Str("Invalid response"), Str(r.body))]
    ELSE IF IsSome(JsonParse(r.body))
    THEN [threw |-> None, how |-> "json", payload |-> Get(JsonParse(r.body))]
    ELSE [threw |-> None, how |-> "json failed",
          payload |-> Object(Undefined, Undefined, Str("Invalid JSON"),
                             Str("Unexpected token in JSON"))]

\* Lines 391-400
isClientSubmissionSuccess(payload) ==
    IF ~Truthy(payload) \/ TypeOf(payload) # "object" THEN FALSE
    ELSE /\ TypeOf(payload.fields.success) = "boolean"
         /\ IsArray(payload.fields.results)

\* Lines 402-408
isClientSubmissionError(payload) ==
    IF ~Truthy(payload) \/ TypeOf(payload) # "object" THEN FALSE
    ELSE /\ TypeOf(payload.fields.error) = "string"
         /\ TypeOf(payload.fields.message) = "string"

\* A plausible slip: the error shape is looked for first.
ClassifyErrorFirst(r, payload) ==
    IF isClientSubmissionError(payload)
    THEN [ok |-> FALSE, status |-> r.status, body |-> payload]
    ELSE IF ResponseOk(r) /\ isClientSubmissionSuccess(payload)
    THEN [ok |-> TRUE, status |-> r.status, body |-> payload]
    ELSE [ok |-> FALSE, status |-> r.status,
          body |-> Object(Undefined, Undefined, Str("Invalid response"),
                          Str(IF TypeOf(payload) = "object"
                              THEN JsonStringify(payload)
                              ELSE StringOf(payload)))]

\* A plausible slip: the success body is rebuilt from the two fields of its
\* type instead of being passed on.
ClassifyRebuilt(r, payload) ==
    IF ResponseOk(r) /\ isClientSubmissionSuccess(payload)
    THEN [ok |-> TRUE, status |-> r.status,
          body |-> Object(payload.fields.success, payload.fields.results,
                          Undefined, Undefined)]
    ELSE [ok |-> FALSE, status |-> r.status,
          body |-> IF isClientSubmissionError(payload) THEN payload
                   ELSE Object(Undefined, Undefined, Str("Invalid response"),
                               Str(IF TypeOf(payload) = "object"
                                   THEN JsonStringify(payload)
                                   ELSE StringOf(payload)))]

\* Lines 339-358: the ClientSubmissionResponse for a response and its payload
Classify(r, payload) ==
    IF ResponseOk(r) /\ isClientSubmissionSuccess(payload)
    THEN [ok |-> TRUE, status |-> r.status, body |-> payload]
    ELSE [ok |-> FALSE, status |-> r.status,
          body |-> IF isClientSubmissionError(payload) THEN payload
                   ELSE Object(Undefined, Undefined, Str("Invalid response"),
                               Str(IF TypeOf(payload) = "object"
                                   THEN JsonStringify(payload)
                                   ELSE StringOf(payload)))]

WalletAddress == "7xKXtg2CW87d97TXJSDpbD5jBkheTqA83TZRuJosgAsU"
BaseUrl == "https://ai-api.blueshift.gg"

\* A VersionedTransaction: its message, whether the wallet is one of its
\* required signers, and whether the wallet's signature is in its slot.
Transactions == [message : {"tx1"}, walletIsSigner : BOOLEAN, signed : {FALSE}]

Inputs ==
    [slug : {"anchor-vault"},
     transactionBase64 : {None, Some(""), Some("AQABAgM=")},
     transaction : {None} \cup {Some(t) : t \in Transactions}]

\* Buffer.from(signed.serialize()).toString("base64")
SerializeBase64(t) ==
    "base64(" \o t.message \o (IF t.signed THEN ",signed" ELSE ",unsigned") \o ")"

\* A plausible slip: no check that a transaction was given, so that the
\* request goes out with the payload undefined.
resolveUnchecked(input) ==
    IF IsSome(input.transactionBase64) /\ Get(input.transactionBase64) # ""
    THEN [threw |-> None, value |-> Get(input.transactionBase64),
          signs |-> 0, transaction |-> input.transaction]
    ELSE IF ~IsSome(input.transaction)
    THEN [threw |-> None, value |-> "undefined",
          signs |-> 0, transaction |-> input.transaction]
    ELSE IF ~Get(input.transaction).walletIsSigner
    THEN [threw |-> Some("SignFailed"), value |-> "",
          signs |-> 1, transaction |-> input.transaction]
    ELSE LET signedTx == [Get(input.transaction) EXCEPT !.signed = TRUE]
         IN  [threw |-> None, value |-> SerializeBase64(signedTx),
              signs |-> 1, transaction |-> Some(signedTx)]

\* A plausible slip: a transaction object, when given, is signed and sent
\* even though a base64 payload was given too.
resolvePreferTransaction(input) ==
    IF IsSome(input.transaction)
    THEN IF ~Get(input.transaction).walletIsSigner
         THEN [threw |-> Some("SignFailed"), value |-> "",
               signs |-> 1, transaction |-> input.transaction]
         ELSE LET signedTx == [Get(input.transaction) EXCEPT !.signed = TRUE]
              IN  [threw |-> None, value |-> SerializeBase64(signedTx),
                   signs |-> 1, transaction |-> Some(signedTx)]
    ELSE IF IsSome(input.transactionBase64) /\ Get(input.transactionBase64) # ""
    THEN [threw |-> None, value |-> Get(input.transactionBase64),
          signs |-> 0, transaction |-> input.transaction]
    ELSE [threw |-> Some("MissingPayload"), value |-> "",
          signs |-> 0, transaction |-> input.transaction]

\* Lines 361-376: what resolveTransactionBase64 does with the input: it
\* returns a string, or throws; signing leaves its mark on the transaction.
resolveTransactionBase64(input) ==
    IF IsSome(input.transactionBase64) /\ Get(input.transactionBase64) # ""
    THEN [threw |-> None, value |-> Get(input.transactionBase64),
          signs |-> 0, transaction |-> input.transaction]
    ELSE IF ~IsSome(input.transaction)
    THEN [threw |-> Some("MissingPayload"), value |-> "",
          signs |-> 0, transaction |-> input.transaction]
    ELSE IF ~Get(input.transaction).walletIsSigner
    THEN [threw |-> Some("SignFailed"), value |-> "",
          signs |-> 1, transaction |-> input.transaction]
    ELSE LET signedTx == [Get(input.transaction) EXCEPT !.signed = TRUE]
         IN  [threw |-> None, value |-> SerializeBase64(signedTx),
              signs |-> 1, transaction |-> Some(signedTx)]

\* Lines 315-335: the call up to its fetch. The payload is resolved first; when
\* that throws, the call raises and nothing is sent.
SubmitCall ==
    /\ sPc = "call"
    /\ \E input \in Inputs :
        LET res == resolveTransactionBase64(input)
        IN  /\ sInput' = [input EXCEPT !.transaction = res.transaction]
            /\ signCount' = signCount + res.signs
            /\ IF IsSome(res.threw)
               THEN /\ sPc' = "raised"
                    /\ sError' = res.threw
                    /\ UNCHANGED requests
               ELSE /\ sPc' = "fetching"
                    /\ requests' = Append(requests,
                          [url |-> BaseUrl \o "/v1/challenges/client/" \o input.slug,
                           method |-> "POST",
                           body |-> [transaction |-> res.value, address |-> WalletAddress]])
                    /\ UNCHANGED sError
    /\ UNCHANGED <<response, parsed, sResult>>
    /\ UNCHANGED <<sanVars, buildVars, restVars>>

\* Line 329 returns: fetch resolves with a response, or rejects.
FetchDone ==
    /\ sPc = "fetching"
    /\ \/ \E r \in Responses :
            /\ response' = Some(r)
            /\ sPc' = "parsing"
            /\ UNCHANGED sError
       \/ /\ sPc' = "raised"
          /\ sError' = Some("FetchFailed")
          /\ UNCHANGED response
    /\ UNCHANGED <<sInput, requests, parsed, sResult, signCount>>
    /\ UNCHANGED <<sanVars, buildVars, restVars>>

\* Lines 337-358: the body is read and the result returned.
BodyDone ==
    /\ sPc = "parsing"
    /\ LET got == parseJsonSafe(Get(response))
       IN  /\ parsed' = Some(got.how)
           /\ IF IsSome(got.threw)
              THEN /\ sPc' = "raised"
                   /\ sError' = got.threw
                   /\ UNCHANGED sResult
              ELSE /\ sPc' = "done"
                   /\ sResult' = Some(Classify(Get(response), got.payload))
                   /\ UNCHANGED sError
    /\ UNCHANGED <<sInput, requests, response, signCount>>
    /\ UNCHANGED <<sanVars, buildVars, restVars>>

IdleSubmit ==
    /\ sPc = "idle"
    /\ sInput = None
    /\ requests = <<>>
    /\ response = None
    /\ parsed = None
    /\ sResult = None
    /\ sError = None
    /\ signCount = 0

InitSubmit ==
    /\ sPc = "call"
    /\ sInput = None
    /\ requests = <<>>
    /\ response = None
    /\ parsed = None
    /\ sResult = None
    /\ sError = None
    /\ signCount = 0

NextSubmit == SubmitCall \/ FetchDone \/ BodyDone

-----------------------------------------------------------------------------
(* SolanaWallet (solana.ts): base58, the key pair and the signing           *)
(* operations, as functions of the key pair and the payload.                *)

\* The base58 alphabet of bs58; a digit's value is its place in it, from 0.
Base58Alphabet == "123456789ABCDEFGHJKLMNPQRSTUVWXYZabcdefghijkmnopqrstuvwxyz"

Base58Char(d) == SubSeq(Base58Alphabet, d + 1, d + 1)

IsBase58Char(ch) == \E d \in 0..57 : Base58Char(d) = ch

Base58Digit(ch) == CHOOSE d \in 0..57 : Base58Char(d) = ch

\* One step of the long arithmetic of base-x: the number ds (least significant
\* limb first, limbs below `limb`) times m plus carry.
RECURSIVE MulAdd(_, _, _, _)
MulAdd(ds, m, carry, limb) ==
    IF ds = <<>>
    THEN IF carry = 0 THEN <<>>
         ELSE <<carry % limb>> \o MulAdd(<<>>, m, carry \div limb, limb)
    ELSE LET v == ds[1] * m + carry
         IN  <<v % limb>> \o MulAdd(Tail(ds), m, v \div limb, limb)

\* The digits src (most significant first, in base from) as a number in
\* limbs, least significant first, taken two digits at a time.
RECURSIVE ConvertBase(_, _, _)
ConvertBase(src, from, limb) ==
    IF src = <<>> THEN <<>>
    ELSE IF Len(src) = 1 THEN MulAdd(<<>>, from, src[1], limb)
    ELSE MulAdd(ConvertBase(SubSeq(src, 1, Len(src) - 2), from, limb),
                from * from, src[Len(src) - 1] * from + src[Len(src)], limb)

\* The limbs (each two digits of base `base`) as digits, most significant
\* first, without leading zeros.
DigitsOfLimbs(limbs, base) ==
    LET lsf == [i \in 1..2 * Len(limbs) |->
                   IF i % 2 = 1 THEN limbs[(i + 1) \div 2] % base
                   ELSE limbs[i \div 2] \div base]
        n == IF lsf # <<>> /\ lsf[Len(lsf)] = 0 THEN Len(lsf) - 1 ELSE Len(lsf)
    IN  [i \in 1..n |-> lsf[n + 1 - i]]

\* How many zeros s starts with.
LeadingZeros(s) ==
    CHOOSE n \in 0..Len(s) :
        /\ \A i \in 1..n : s[i] = 0
        /\ n < Len(s) => s[n + 1] # 0

RECURSIVE Base58Text(_)
Base58Text(ds) ==
    IF ds = <<>> THEN ""
    ELSE IF Len(ds) = 1 THEN Base58Char(ds[1])
    ELSE Base58Text(SubSeq(ds, 1, Len(ds) \div 2))
         \o Base58Text(SubSeq(ds, Len(ds) \div 2 + 1, Len(ds)))

\* bs58.encode: one "1" for every leading zero byte, then the number the
\* bytes stand for in base 58.
bs58Encode(bytes) ==
    Base58Text([i \in 1..LeadingZeros(bytes) |-> 0]
               \o DigitsOfLimbs(ConvertBase(bytes, 256, 58 * 58), 58))

\* How many "1" the text starts with: bs58.decode makes a zero byte of each.
LeadingOnes(text) ==
    CHOOSE n \in 0..Len(text) :
        /\ \A i \in 1..n : SubSeq(text, i, i) = "1"
        /\ n < Len(text) => SubSeq(text, n + 1, n + 1) # "1"

\* bs58.decode, one character of the text at a time: the bytes so far (as
\* limbs of two bytes, least significant first) times 58 plus the digit.
DecodeChar(acc, ch) == MulAdd(acc, 58, Base58Digit(ch), 256 * 256)

\* bs58.decode at the end of the text: the zero bytes, then the number's bytes.
DecodedBytes(text, acc) ==
    [i \in 1..LeadingOnes(text) |-> 0] \o DigitsOfLimbs(acc, 256)

\* new TextEncoder().encode(text), for the characters of the texts below.
Utf8Char(ch) ==
    CASE ch = "h" -> 104
      [] ch = "i" -> 105
      [] ch = "!" -> 33
      [] OTHER -> 63

RECURSIVE Utf8(_)
Utf8(text) ==
    IF text = "" THEN <<>>
    ELSE <<Utf8Char(SubSeq(text, 1, 1))>> \o Utf8(SubSeq(text, 2, Len(text)))

RECURSIVE SumOf(_)
SumOf(s) == IF s = <<>> THEN 0 ELSE s[1] + SumOf(Tail(s))

KeyLen == 64
SeedLen == 32

\* The public key of a 32-byte seed: the curve arithmetic of @solana/web3.js
\* is outside this repository; it is a fixed function of the seed.
PublicKeyOf(seed) == [i \in 1..Len(seed) |-> (seed[Len(seed) + 1 - i] + i) % 256]

\* ed25519.sign(message, privateScalar) of @noble/curves: a fixed function of
\* the message and of the scalar, here two bytes long.
ed25519Sign(message, privateScalar) ==
    <<(SumOf(privateScalar) * 31 + SumOf(message) * 7 + Len(message)) % 256,
      (SumOf(privateScalar) + SumOf(message) * 3 + 1) % 256>>

\* Keypair.fromSecretKey: throws unless the bytes are 64 and the last 32 are
\* the public key of the first 32 (None); else the key pair.
fromSecretKey(bytes) ==
    IF Len(bytes) # KeyLen THEN None
    ELSE LET seed == SubSeq(bytes, 1, SeedLen)
             pub  == SubSeq(bytes, SeedLen + 1, Len(bytes))
         IN  IF pub = PublicKeyOf(seed)
             THEN Some([secretKey |-> bytes, publicKey |-> pub])
             ELSE None

\* Two seeds, and the secret keys made of them.
SeedA == [i \in 1..SeedLen |-> (i * 7) % 256]
SeedB == [i \in 1..SeedLen |-> IF i = 1 THEN 0 ELSE (i * 11 + 3) % 256]

SecretKeyOf(seed) == seed \o PublicKeyOf(seed)

\* What a caller passes to a wallet operation: bytes, a string, or a
\* transaction object.
BytesArg(bytes) == [kind |-> "bytes", bytes |-> bytes, text |-> "", tx |-> None]
StringArg(text) == [kind |-> "string", bytes |-> <<>>, text |-> text, tx |-> None]
TxArg(tx) == [kind |-> "transaction", bytes |-> <<>>, text |-> "", tx |-> Some(tx)]
NoArg == [kind |-> "none", bytes |-> <<>>, text |-> "", tx |-> None]

\* What a wallet operation gives back: bytes, a base58 string, a base64 string
\* (as Base64 writes it), a transaction object, or an error.
NoOut == [threw |-> None, bytes |-> <<>>, text |-> "", b64 |-> <<>>, tx |-> None]
BytesOut(bytes) == [NoOut EXCEPT !.bytes = bytes]
TextOut(text) == [NoOut EXCEPT !.text = text]
Base64Out(b64) == [NoOut EXCEPT !.b64 = b64]
TxOut(tx) == [NoOut EXCEPT !.tx = Some(tx)]
ThrewOut(kind) == [NoOut EXCEPT !.threw = Some(kind)]

\* typeof message === "string" ? new TextEncoder().encode(message) : message
BytesOfArg(arg) == IF arg.kind = "string" THEN Utf8(arg.text) ELSE arg.bytes

\* Lines 18-20: keypair.publicKey.toBase58()
address(kp) == bs58Encode(kp.publicKey)

\* Lines 26-29.
sign(kp, message) == ed25519Sign(message, SubSeq(kp.secretKey, 1, SeedLen))

\* Lines 31-33.
signUtf8(kp, text) == sign(kp, Utf8(text))

\* Lines 35-41.
signBase58(kp, arg) == bs58Encode(sign(kp, BytesOfArg(arg)))

\* Lines 53-59.
encodeBase58(arg) == bs58Encode(BytesOfArg(arg))

\* A VersionedTransaction: the bytes of its message, the public keys of its
\* required signers and one signature slot for each of them.
EmptySignature == <<0, 0>>

SignerIndex(tx, kp) ==
    IF \E i \in 1..Len(tx.signerKeys) : tx.signerKeys[i] = kp.publicKey
    THEN Some(CHOOSE i \in 1..Len(tx.signerKeys) : tx.signerKeys[i] = kp.publicKey)
    ELSE None

\* A plausible slip: the signature is written into the first slot, whoever
\* that slot belongs to.
signIntoFirstSlot(kp, tx) ==
    IF IsSome(SignerIndex(tx, kp))
    THEN [threw |-> None,
          transaction |-> [tx EXCEPT !.signatures[1] = sign(kp, tx.message)]]
    ELSE [threw |-> Some("NotASigner"), transaction |-> tx]

\* Lines 43-46: transaction.sign([keypair]) writes the signature of the message
\* into the key pair's slot of the transaction it was given and throws when
\* the key pair is not one of the signers; the same object is returned.
signVersionedTransaction(kp, tx) ==
    LET at == SignerIndex(tx, kp)
    IN  IF IsSome(at)
        THEN [threw |-> None,
              transaction |-> [tx EXCEPT !.signatures[Get(at)] = sign(kp, tx.message)]]
        ELSE [threw |-> Some("NotASigner"), transaction |-> tx]

RECURSIVE Flatten(_)
Flatten(ss) == IF ss = <<>> THEN <<>> ELSE ss[1] \o Flatten(Tail(ss))

\* transaction.serialize(): the signatures, counted, then the message.
Serialize(tx) == <<Len(tx.signatures)>> \o Flatten(tx.signatures) \o tx.message

\* Lines 48-51.
signAndEncodeTransaction(kp, tx) ==
    LET res == signVersionedTransaction(kp, tx)
    IN  [threw |-> res.threw,
         transaction |-> res.transaction,
         b64 |-> IF IsSome(res.threw) THEN <<>> ELSE Base64(Serialize(res.transaction))]

-----------------------------------------------------------------------------
(* BlueshiftClient: listChallenges, getChallenge, getProgress and           *)
(* submitProgramChallenge, one call after another on one client.            *)

MaxQueries == 2

\* encodeURIComponent, for the characters of the arguments below: letters,
\* digits and - _ . ! ~ * ' ( ) stay, the others are percent-encoded.
EncodeChar(ch) ==
    CASE ch = "/" -> "%2F"
      [] ch = " " -> "%20"
      [] ch = "?" -> "%3F"
      [] OTHER -> ch

RECURSIVE encodeURIComponent(_)
encodeURIComponent(text) ==
    IF text = "" THEN ""
    ELSE EncodeChar(SubSeq(text, 1, 1)) \o encodeURIComponent(SubSeq(text, 2, Len(text)))

\* text.replace(/\/$/, "")
StripSlash(text) ==
    IF Len(text) > 0 /\ SubSeq(text, Len(text), Len(text)) = "/"
    THEN SubSeq(text, 1, Len(text) - 1)
    ELSE text

\* The base URL the client was made with.
ClientBaseUrl == "https://ai-api.blueshift.gg/"

\* Lines 247-249.
endpoint(pathname) == StripSlash(ClientBaseUrl) \o pathname

\* The wallet the client was made with.
ClientKeypair == Get(fromSecretKey(SecretKeyOf(SeedA)))
ClientAddress == address(ClientKeypair)

\* A decoded JSON document: the members the client looks at, each absent
\* (None) or the JSON text of its value.
Documents ==
    [challenges : {None, Some("[]"), Some("[{\"slug\":\"anchor-vault\"}]")},
     challenge : {None, Some("{\"slug\":\"anchor-vault\"}")},
     agent : {None, Some("null"), Some("{\"name\":\"agent-1\"}")}]

\* A Response: its status and what res.json() would make of its body, a
\* document or a SyntaxError (None).
QueryResponses == [status : Statuses, json : {None} \cup {Some(d) : d \in Documents}]

\* res.ok
QueryOk(r) == r.status >= 200 /\ r.status <= 299

ProgramBuffers == {<<127, 69>>, <<0, 255, 1>>}

\* The calls: the operation and its arguments.
NoQuery == [op |-> "none", namespace |-> "", key |-> "", address |-> None,
            slug |-> "", programBuffer |-> <<>>]

QueryCalls ==
    {[NoQuery EXCEPT !.op = "listChallenges"]}
    \cup {[NoQuery EXCEPT !.op = "getChallenge", !.namespace = "anchor", !.key = k]
            : k \in {"vault", "a/b"}}
    \cup {[NoQuery EXCEPT !.op = "getProgress", !.address = a]
            : a \in {None, Some("9xQeWvG816bUx9EPjHmaT23yvVM2ZWbrrpZb9PusVFin")}}
    \cup {[NoQuery EXCEPT !.op = "submitProgramChallenge", !.slug = "anchor vault",
                          !.programBuffer = b] : b \in ProgramBuffers}

\* What a call returns: a member of the document (value), a whole document
\* (body) or the Response itself (raw).
NoResult == [value |-> None, body |-> None, raw |-> None]

\* Line 278.
AbsentProgress == [challenges |-> Some("[]"), challenge |-> None, agent |-> Some("null")]

\* The URL a call fetches.
TargetOf(call) ==
    CASE call.op = "listChallenges" -> endpoint("/v1/challenges")
      [] call.op = "getChallenge" ->
            endpoint("/v1/challenges/" \o encodeURIComponent(call.namespace)
                     \o "/" \o encodeURIComponent(call.key))
      [] call.op = "getProgress" ->
            endpoint("/v1/agents/"
                     \o encodeURIComponent(OrElse(call.address, ClientAddress))
                     \o "/progress")
      [] OTHER -> endpoint("/v1/challenges/program/" \o encodeURIComponent(call.slug))

\* A part of a multipart form: its name and its value, a blob with a file
\* name or a string.
BlobPart(name, bytes, fileName) ==
    [name |-> name, blob |-> Some(bytes), text |-> "", fileName |-> fileName]
TextPart(name, text) ==
    [name |-> name, blob |-> None, text |-> text, fileName |-> ""]

\* What the log holds: a signature the wallet made, or a request sent.
SignEvent(n, bytes, signature) ==
    [ev |-> "sign", call |-> n, bytes |-> bytes, signature |-> signature,
     url |-> "", method |-> "", form |-> <<>>]
FetchEvent(n, url, method, form) ==
    [ev |-> "fetch", call |-> n, bytes |-> <<>>, signature |-> <<>>,
     url |-> url, method |-> method, form |-> form]

\* What a call does once fetch has resolved with r: it returns a result, it
\* raises, or it goes on to read the body with res.json().
ReturnNow(result) == [to |-> "returned", result |-> Some(result), error |-> None]
RaiseNow(kind) == [to |-> "raised", result |-> None, error |-> Some(kind)]
ReadBody == [to |-> "reading", result |-> None, error |-> None]

\* A plausible slip: listChallenges answers a 404 with an empty list, the way
\* getProgress does.
listChallengesLenient(r) ==
    IF r.status = 404 THEN ReturnNow([NoResult EXCEPT !.value = Some("[]")])
    ELSE IF ~QueryOk(r) THEN RaiseNow("TransportError")
    ELSE ReadBody

\* Lines 252-256.
listChallengesOn(r) ==
    IF ~QueryOk(r) THEN RaiseNow("TransportError") ELSE ReadBody

\* Lines 261-269.
getChallengeOn(r) ==
    IF ~QueryOk(r) THEN RaiseNow("TransportError") ELSE ReadBody

\* A plausible slip: the status is checked with res.ok first, so that a 404
\* raises like every other failure.
getProgressOkFirst(r) ==
    IF ~QueryOk(r) THEN RaiseNow("TransportError")
    ELSE IF r.status = 404 THEN ReturnNow([NoResult EXCEPT !.body = Some(AbsentProgress)])
    ELSE ReadBody

\* Lines 274-285.
getProgressOn(r) ==
    IF r.status = 404 THEN ReturnNow([NoResult EXCEPT !.body = Some(AbsentProgress)])
    ELSE IF ~QueryOk(r) THEN RaiseNow("TransportError")
    ELSE ReadBody

\* A plausible slip: the response is classified, a failure status raises.
submitProgramChecked(r) ==
    IF ~QueryOk(r) THEN RaiseNow("TransportError")
    ELSE ReturnNow([NoResult EXCEPT !.raw = Some(r)])

\* Lines 304-307: the promise of fetch is returned as it is.
submitProgramOn(r) == ReturnNow([NoResult EXCEPT !.raw = Some(r)])

\* Lines 257-258, 270-271, 285: what is returned of the decoded document.
ResultOf(call, doc) ==
    CASE call.op = "listChallenges" -> [NoResult EXCEPT !.value = doc.challenges]
      [] call.op = "getChallenge" -> [NoResult EXCEPT !.value = doc.challenge]
      [] OTHER -> [NoResult EXCEPT !.body = Some(doc)]

\* Lines 296-302: the form of a program submission.
ProgramForm(call, signatureBase58) ==
    <<BlobPart("program", call.programBuffer, call.slug \o "-submission.so"),
      TextPart("signature", signatureBase58),
      TextPart("address", ClientAddress)>>

\* Lines 289-307 up to the fetch: the signature is made, then the form, then
\* the request goes out.
ProgramEvents(n, call) ==
    <<SignEvent(n, call.programBuffer, sign(ClientKeypair, call.programBuffer)),
      FetchEvent(n, TargetOf(call), "POST",
                 ProgramForm(call, signBase58(ClientKeypair, BytesArg(call.programBuffer))))>>

\* A call starts and runs up to its fetch.
QueryBegin ==
    /\ qPc \in {"ready", "returned", "raised"}
    /\ qCount < MaxQueries
    /\ \E call \in QueryCalls :
        /\ qCall' = call
        /\ qLog' = qLog \o (IF call.op = "submitProgramChallenge"
                            THEN ProgramEvents(qCount + 1, call)
                            ELSE <<FetchEvent(qCount + 1, TargetOf(call), "GET", <<>>)>>)
    /\ qCount' = qCount + 1
    /\ qPc' = "fetching"
    /\ qResponse' = None
    /\ qBodyRead' = FALSE
    /\ qResult' = None
    /\ qError' = None
    /\ UNCHANGED <<sanVars, buildVars, submitVars>>
    /\ UNCHANGED <<walletVars, configVars>>

\* fetch resolves with a response, or rejects.
QueryFetchDone ==
    /\ qPc = "fetching"
    /\ \/ \E r \in QueryResponses :
            LET did == CASE qCall.op = "listChallenges" -> listChallengesOn(r)
                         [] qCall.op = "getChallenge" -> getChallengeOn(r)
                         [] qCall.op = "getProgress" -> getProgressOn(r)
                         [] OTHER -> submitProgramOn(r)
            IN  /\ qResponse' = Some(r)
                /\ qPc' = did.to
                /\ qResult' = did.result
                /\ qError' = did.error
       \/ /\ qPc' = "raised"
          /\ qError' = Some("FetchFailed")
          /\ UNCHANGED <<qResponse, qResult>>
    /\ UNCHANGED <<qCount, qCall, qLog, qBodyRead>>
    /\ UNCHANGED <<sanVars, buildVars, submitVars>>
    /\ UNCHANGED <<walletVars, configVars>>

\* res.json() settles: the document, or a SyntaxError.
QueryBodyDone ==
    /\ qPc = "reading"
    /\ qBodyRead' = TRUE
    /\ IF IsSome(Get(qResponse).json)
       THEN /\ qPc' = "returned"
            /\ qResult' = Some(ResultOf(qCall, Get(Get(qResponse).json)))
            /\ UNCHANGED qError
       ELSE /\ qPc' = "raised"
            /\ qError' = Some("SyntaxError")
            /\ UNCHANGED qResult
    /\ UNCHANGED <<qCount, qCall, qLog, qResponse>>
    /\ UNCHANGED <<sanVars, buildVars, submitVars>>
    /\ UNCHANGED <<walletVars, configVars>>

IdleQuery ==
    /\ qPc = "idle"
    /\ qCount = 0
    /\ qCall = NoQuery
    /\ qLog = <<>>
    /\ qResponse = None
    /\ qBodyRead = FALSE
    /\ qResult = None
    /\ qError = None

InitQuery ==
    /\ qPc = "ready"
    /\ qCount = 0
    /\ qCall = NoQuery
    /\ qLog = <<>>
    /\ qResponse = None
    /\ qBodyRead = FALSE
    /\ qResult = None
    /\ qError = None

NextQuery == QueryBegin \/ QueryFetchDone \/ QueryBodyDone

-----------------------------------------------------------------------------
(* SolanaWallet: the constructor on a secret, then operations on the wallet *)
(* it made, one after another.                                              *)

MaxOps == 2

\* The secrets handed to the constructor. The first two are the base58 texts
\* of SecretKeyOf(SeedA) and SecretKeyOf(SeedB), the third of 64 bytes that are
\* no key pair (SeedA twice); then come SeedA alone (32 bytes), the first 63
\* bytes of the first key, the first key with one more byte (65), no text,
\* four zero bytes, and a text that is not base58.
Secrets ==
    {"9BVz6jMnQBw9UUJYhWkh5jpVEf9TfX6CPSpYS9GumC5goL95aqUGHSSYP4m79Tuiq8VfW4DmNiEXswiq3iYa4iz",
     "17c6wafbig5T1qHWVTFfq9NDzuWmNfn9maqLL9rf8JjfjcRp33Wg1xhwZCrVxLbwzsZ7YbjAnGSCYbvzjUPQjQj",
     "9BVz6jMnQBw9UUJYhWkh5jpVEf9TfX6CPSpYS9GumC5S5DHxgWdfrKsRtgNFpjGijxXXviJojHZefUpS6vwRTAo",
     "UYJtjuS5i36uXyv74V6aJDHbuShQsFAsZaHaJmRU2pX",
     "2rWDwKCxbhzae37Eyku3HUpv512vAdixbYE38xoCW3WcJJ2NtAd5pgJ7f5UfYpnUbvMYNzNUGo3cYUodiQ1Mde",
     "d7Lw2HxjPMFzQFWSupKquuzbdHNLh1owG4xqjyXDt3ugfVUfELwLTZHjWPbg8MmhdS5WwFDLrpzjHrXd4zNLwSJc",
     "",
     "1111",
     "9BVz0OIl"}

\* The transactions a caller holds: the wallet of SeedA or of SeedB is a
\* signer of some of them.
WalletTransactions ==
    {[message |-> <<1, 2, 3>>, signerKeys |-> ks,
      signatures |-> [i \in 1..Len(ks) |-> EmptySignature]]
        : ks \in {<<PublicKeyOf(SeedA)>>, <<PublicKeyOf(SeedB)>>,
                  <<PublicKeyOf(SeedB), PublicKeyOf(SeedA)>>}}

ByteArgs == {BytesArg(b) : b \in {<<>>, <<104, 105>>}}
StringArgs == {StringArg(t) : t \in {"hi", "h!"}}

\* Line 9, one turn of the loop of bs58.decode: a character outside the
\* alphabet makes it throw, any other is added to the number read so far.
DecodeStep ==
    /\ wPc = "new"
    /\ wAt <= Len(wSecret)
    /\ LET ch == SubSeq(wSecret, wAt, wAt)
       IN  IF IsBase58Char(ch)
           THEN /\ wAcc' = DecodeChar(wAcc, ch)
                /\ wAt' = wAt + 1
                /\ UNCHANGED <<wPc, wError>>
           ELSE /\ wPc' = "failed"
                /\ wError' = Some("NonBase58")
                /\ UNCHANGED <<wAt, wAcc>>
    /\ UNCHANGED <<wSecret, wDecoded, wallet, wTx, wOps, wLast, wSeen>>
    /\ UNCHANGED <<sanVars, buildVars, submitVars>>
    /\ UNCHANGED <<queryVars, configVars>>

\* A plausible slip: no length check, the decoded bytes go straight to
\* Keypair.fromSecretKey.
constructUnchecked(secretKeyBytes) ==
    IF ~IsSome(fromSecretKey(secretKeyBytes))
    THEN [threw |-> Some("BadKeypair"), keypair |-> None]
    ELSE [threw |-> None, keypair |-> fromSecretKey(secretKeyBytes)]

\* Lines 10-15: the constructor once the secret is decoded: the error thrown
\* and the key pair kept.
constructWallet(secretKeyBytes) ==
    IF Len(secretKeyBytes) # KeyLen
    THEN [threw |-> Some("InvalidKey"), keypair |-> None]
    ELSE IF ~IsSome(fromSecretKey(secretKeyBytes))
    THEN [threw |-> Some("BadKeypair"), keypair |-> None]
    ELSE [threw |-> None, keypair |-> fromSecretKey(secretKeyBytes)]

\* Lines 9-15: bs58.decode returns the bytes, and the rest of the constructor
\* runs.
Construct ==
    /\ wPc = "new"
    /\ wAt > Len(wSecret)
    /\ LET secretKeyBytes == DecodedBytes(wSecret, wAcc)
           made == constructWallet(secretKeyBytes)
       IN  /\ wDecoded' = Some(secretKeyBytes)
           /\ wError' = made.threw
           /\ wallet' = made.keypair
           /\ wPc' = IF IsSome(made.threw) THEN "failed" ELSE "ready"
    /\ UNCHANGED <<wSecret, wAt, wAcc, wTx, wOps, wLast, wSeen>>
    /\ UNCHANGED <<sanVars, buildVars, submitVars>>
    /\ UNCHANGED <<queryVars, configVars>>

\* What an operation of the wallet does with its argument: what it gives back
\* and what the argument is afterwards.
Did(op, arg, out) == [op |-> op, before |-> arg, after |-> arg, out |-> out]

Record(did) ==
    /\ wLast' = Some(did)
    /\ wSeen' = wSeen \cup {did}
    /\ wOps' = wOps + 1

\* Lines 18-41, 53-59: the operations on bytes and strings.
BytesOp ==
    /\ wPc = "ready"
    /\ wOps < MaxOps
    /\ LET kp == Get(wallet)
       IN  \/ Record(Did("address", NoArg, TextOut(address(kp))))
           \/ \E arg \in ByteArgs :
                Record(Did("sign", arg, BytesOut(sign(kp, arg.bytes))))
           \/ \E arg \in StringArgs :
                Record(Did("signUtf8", arg, BytesOut(signUtf8(kp, arg.text))))
           \/ \E arg \in ByteArgs \cup StringArgs :
                Record(Did("signBase58", arg, TextOut(signBase58(kp, arg))))
           \/ \E arg \in ByteArgs \cup StringArgs :
                Record(Did("encodeBase58", arg, TextOut(encodeBase58(arg))))
    /\ UNCHANGED <<wPc, wSecret, wAt, wAcc, wDecoded, wallet, wError, wTx>>
    /\ UNCHANGED <<sanVars, buildVars, submitVars>>
    /\ UNCHANGED <<queryVars, configVars>>

\* Lines 43-51: the operations on the transaction the caller holds.
TransactionOp ==
    /\ wPc = "ready"
    /\ wOps < MaxOps
    /\ LET kp == Get(wallet)
       IN  \/ LET res == signVersionedTransaction(kp, wTx)
              IN  /\ wTx' = res.transaction
                  /\ Record([op |-> "signVersionedTransaction",
                             before |-> TxArg(wTx),
                             after |-> TxArg(res.transaction),
                             out |-> IF IsSome(res.threw)
                                     THEN ThrewOut(Get(res.threw))
                                     ELSE TxOut(res.transaction)])
           \/ LET res == signAndEncodeTransaction(kp, wTx)
              IN  /\ wTx' = res.transaction
                  /\ Record([op |-> "signAndEncodeTransaction",
                             before |-> TxArg(wTx),
                             after |-> TxArg(res.transaction),
                             out |-> IF IsSome(res.threw)
                                     THEN ThrewOut(Get(res.threw))
                                     ELSE Base64Out(res.b64)])
    /\ UNCHANGED <<wPc, wSecret, wAt, wAcc, wDecoded, wallet, wError>>
    /\ UNCHANGED <<sanVars, buildVars, submitVars>>
    /\ UNCHANGED <<queryVars, configVars>>

IdleWallet ==
    /\ wPc = "idle"
    /\ wSecret = ""
    /\ wAt = 1
    /\ wAcc = <<>>
    /\ wDecoded = None
    /\ wallet = None
    /\ wError = None
    /\ wTx = CHOOSE t \in WalletTransactions : TRUE
    /\ wOps = 0
    /\ wLast = None
    /\ wSeen = {}

InitWallet ==
    /\ wPc = "new"
    /\ wSecret \in Secrets
    /\ wAt = 1
    /\ wAcc = <<>>
    /\ wDecoded = None
    /\ wallet = None
    /\ wError = None
    /\ wTx \in WalletTransactions
    /\ wOps = 0
    /\ wLast = None
    /\ wSeen = {}

NextWallet == DecodeStep \/ Construct \/ BytesOp \/ TransactionOp

-----------------------------------------------------------------------------
(* loadConfig (tools.ts, lines 384-436) on an environment.                  *)

DEFAULT_API_URL == "https://ai-api.blueshift.gg"

\* process.env: every variable is unset (None) or a string.
Environments ==
    [API_URL : {None, Some(""), Some("https://a.example"), Some("https://a.example/")},
     BLUESHIFT_BASE_URL : {None, Some(""), Some("https://b.example")},
     BLUESHIFT_AI_HACKATHON_MCP_URL :
        {None, Some(""), Some("https://c.example/mcp"), Some("https://c.example/mcp/"),
         Some("https://c.example/tools")},
     OPENAI_API_KEY : {None, Some("sk-or-v1-0000")},
     SOLANA_PRIVATE_KEY : {None, Some("short"), Some("4Nd1mYvQk3sT8pLz")},
     AGENT_NAME : {None, Some("Agent Seven")},
     AGENT_TEAM : {None},
     LLM_MODEL : {None, Some("openai/gpt-5")},
     LLM_TEMPERATURE : {None, Some(""), Some("0.7"), Some("3"), Some("hot")}]

NoEnv ==
    [API_URL |-> None, BLUESHIFT_BASE_URL |-> None,
     BLUESHIFT_AI_HACKATHON_MCP_URL |-> None, OPENAI_API_KEY |-> None,
     SOLANA_PRIVATE_KEY |-> None, AGENT_NAME |-> None, AGENT_TEAM |-> None,
     LLM_MODEL |-> None, LLM_TEMPERATURE |-> None]

EndsWith(text, tail) ==
    Len(text) >= Len(tail)
    /\ SubSeq(text, Len(text) - Len(tail) + 1, Len(text)) = tail

StartsWith(text, head) ==
    Len(text) >= Len(head) /\ SubSeq(text, 1, Len(head)) = head

\* text.replace(/\/mcp\/?$/, "")
StripMcp(text) ==
    IF EndsWith(text, "/mcp/") THEN SubSeq(text, 1, Len(text) - 5)
    ELSE IF EndsWith(text, "/mcp") THEN SubSeq(text, 1, Len(text) - 4)
    ELSE text

\* a ?? b
Nullish(a, b) == IF IsSome(a) THEN a ELSE b

\* z.string().url(): the text parses as a URL; of the texts above, those that
\* have a scheme and a host.
IsUrl(text) ==
    \E scheme \in {"https://", "http://"} :
        StartsWith(text, scheme) /\ Len(text) > Len(scheme)

\* Number.parseFloat, in tenths, for the texts above; NaN is None.
ParseFloatTenths(text) ==
    CASE text = "0.7" -> Some(7)
      [] text = "3" -> Some(30)
      [] OTHER -> None

\* Lines 409-410.
rawApiUrl(env) ==
    Get(Nullish(env.API_URL,
        Nullish(env.BLUESHIFT_BASE_URL,
        Nullish(IF IsSome(env.BLUESHIFT_AI_HACKATHON_MCP_URL)
                   /\ Get(env.BLUESHIFT_AI_HACKATHON_MCP_URL) # ""
                THEN Some(StripMcp(Get(env.BLUESHIFT_AI_HACKATHON_MCP_URL)))
                ELSE None,
        Some(DEFAULT_API_URL)))))

\* Line 412.
blueshiftApiUrl(env) == StripSlash(rawApiUrl(env))

\* Line 413.
blueshiftMcpUrl(env) ==
    StripSlash(OrElse(env.BLUESHIFT_AI_HACKATHON_MCP_URL, blueshiftApiUrl(env) \o "/mcp"))

\* Lines 415-426: the object handed to the schema. The temperature is in
\* tenths; None stands for undefined, and NaN is a number that is no number.
RawConfig(env) ==
    [openAiApiKey |-> env.OPENAI_API_KEY,
     solanaPrivateKey |-> env.SOLANA_PRIVATE_KEY,
     blueshiftApiUrl |-> blueshiftApiUrl(env),
     blueshiftMcpUrl |-> blueshiftMcpUrl(env),
     agentName |-> OrElse(env.AGENT_NAME, "LangChain Solana Agent"),
     teamName |-> OrElse(env.AGENT_TEAM, "Local Development"),
     model |-> OrElse(env.LLM_MODEL, "openai/gpt-5-mini"),
     temperatureGiven |-> IsSome(env.LLM_TEMPERATURE) /\ Get(env.LLM_TEMPERATURE) # "",
     temperature |-> IF IsSome(env.LLM_TEMPERATURE)
                     THEN ParseFloatTenths(Get(env.LLM_TEMPERATURE))
                     ELSE None]

MinKeyLen == 10

\* Lines 386-397: ConfigSchema.safeParse(raw).success
SchemaAccepts(raw) ==
    /\ IsSome(raw.openAiApiKey)
    /\ IsSome(raw.solanaPrivateKey)
    /\ Len(Get(raw.solanaPrivateKey)) >= MinKeyLen
    /\ IsUrl(raw.blueshiftApiUrl)
    /\ IsUrl(raw.blueshiftMcpUrl)
    /\ raw.temperatureGiven =>
          /\ IsSome(raw.temperature)
          /\ Get(raw.temperature) >= 0
          /\ Get(raw.temperature) <= 20

\* parsed.data
ParsedConfig(raw) ==
    [openAiApiKey |-> Get(raw.openAiApiKey),
     solanaPrivateKey |-> Get(raw.solanaPrivateKey),
     blueshiftApiUrl |-> raw.blueshiftApiUrl,
     blueshiftMcpUrl |-> raw.blueshiftMcpUrl,
     agentName |-> raw.agentName,
     teamName |-> raw.teamName,
     model |-> raw.model,
     temperature |-> IF raw.temperatureGiven
                     THEN Get(raw.temperature)
                     ELSE 2]

\* Lines 402-436.
LoadConfig ==
    /\ cPc = "env"
    /\ LET raw == RawConfig(cEnv)
       IN  IF SchemaAccepts(raw)
           THEN /\ cPc' = "loaded"
                /\ cConfig' = Some(ParsedConfig(raw))
                /\ UNCHANGED cError
           ELSE /\ cPc' = "raised"
                /\ cError' = Some("InvalidConfiguration")
                /\ UNCHANGED cConfig
    /\ UNCHANGED cEnv
    /\ UNCHANGED <<sanVars, buildVars, submitVars>>
    /\ UNCHANGED <<queryVars, walletVars>>

IdleConfig ==
    /\ cPc = "idle"
    /\ cEnv = NoEnv
    /\ cConfig = None
    /\ cError = None

InitConfig ==
    /\ cPc = "env"
    /\ cEnv \in Environments
    /\ cConfig = None
    /\ cError = None

NextConfig == LoadConfig

-----------------------------------------------------------------------------
(* sanitizeProgramName and toKebabCase applied to a name.                   *)

SanitizeCall ==
    /\ sanPc = "input"
    /\ sanOut' = sanitizeProgramName(sanName)
    /\ kebabOut' = toKebabCase(sanName)
    /\ sanPc' = "output"
    /\ UNCHANGED sanName
    /\ UNCHANGED <<buildVars, submitVars, restVars>>

IdleSan ==
    /\ sanPc = "idle"
    /\ sanName = <<>>
    /\ sanOut = <<>>
    /\ kebabOut = <<>>

InitSan ==
    /\ sanPc = "input"
    /\ sanName \in Names
    /\ sanOut = <<>>
    /\ kebabOut = <<>>

NextSan == SanitizeCall

-----------------------------------------------------------------------------
(* The specifications.                                                      *)

IdleRest == IdleQuery /\ IdleWallet /\ IdleConfig

\* One createAnchorProgram call, every input and every toolchain outcome.
InitBuild ==
    /\ InitBuildWith([calls |-> {"c1"}, options |-> FullOptions, outcomes |-> FullOutcomes])
    /\ IdleSan
    /\ IdleSubmit
    /\ IdleRest

SpecBuild == InitBuild /\ [][NextBuild]_vars

\* Two createAnchorProgram calls in flight at once.
InitPair ==
    /\ InitBuildWith([calls |-> Calls, options |-> PairOptions, outcomes |-> PairOutcomes])
    /\ IdleSan
    /\ IdleSubmit
    /\ IdleRest

SpecPair == InitPair /\ [][NextBuild]_vars

\* One submitClientChallenge call.
InitClient == InitSubmit /\ IdleSan /\ IdleBuild /\ IdleRest

SpecSubmit == InitClient /\ [][NextSubmit]_vars

\* sanitizeProgramName on every name.
InitSlug == InitSan /\ IdleBuild /\ IdleSubmit /\ IdleRest

SpecSlug == InitSlug /\ [][NextSan]_vars

\* Queries and program submissions on one client, one after another.
InitQueries ==
    InitQuery /\ IdleSan /\ IdleBuild /\ IdleSubmit /\ IdleWallet /\ IdleConfig

SpecQuery == InitQueries /\ [][NextQuery]_vars

\* A wallet made of a secret, then used.
InitWallets ==
    InitWallet /\ IdleSan /\ IdleBuild /\ IdleSubmit /\ IdleQuery /\ IdleConfig

SpecWallet == InitWallets /\ [][NextWallet]_vars

\* loadConfig on every environment.
InitEnv ==
    InitConfig /\ IdleSan /\ IdleBuild /\ IdleSubmit /\ IdleQuery /\ IdleWallet

SpecConfig == InitEnv /\ [][NextConfig]_vars

Init ==
    InitBuild \/ InitPair \/ InitClient \/ InitSlug \/ InitQueries \/ InitWallets
    \/ InitEnv

Next == NextBuild \/ NextSubmit \/ NextSan \/ NextQuery \/ NextWallet \/ NextConfig

Spec == Init /\ [][Next]_vars

-----------------------------------------------------------------------------
(* Properties of createAnchorProgram.                                       *)

\* The bytes a base64 text stands for (the inverse of toString("base64")).
RECURSIVE Base64Decode(_)
Base64Decode(t) ==
    IF Len(t) < 4 THEN <<>>
    ELSE (<<t[1] * 4 + t[2] \div 16>>
          \o (IF t[3] = 64 THEN <<>> ELSE <<(t[2] % 16) * 16 + t[3] \div 4>>)
          \o (IF t[3] = 64 \/ t[4] = 64 THEN <<>> ELSE <<(t[3] % 4) * 64 + t[4]>>))
         \o Base64Decode(SubSeq(t, 5, Len(t)))

ReturnedBuild(c) == pc[c] = "done" /\ IsSome(build[c])
ExitCode(c) == Get(proc[c]).exit
SoOnDisk(c) == existsSync(disk, programSoPath(workspaceDir(c), Get(slug[c])))
KeypairOnDisk(c) == existsSync(disk, keypairPath(workspaceDir(c), Get(slug[c])))

\* C1: a call whose `anchor build` exited nonzero while the .so file is on disk
\* returns a build result with success = false, programSoPath the path of the
\* file and programSoBase64 the base64 text of the file's bytes.
C1_NonzeroExitKeepsArtifact ==
    \A c \in Calls :
        (ReturnedBuild(c) /\ ExitCode(c) # 0 /\ SoOnDisk(c)) =>
            LET b == Get(build[c])
                soPath == programSoPath(workspaceDir(c), Get(slug[c]))
            IN  /\ b.success = FALSE
                /\ b.programSoPath = Some(soPath)
                /\ IsSome(b.programSoBase64)
                /\ Base64Decode(Get(b.programSoBase64)) = disk[soPath]

C1_Witness ==
    \E c \in Calls :
        /\ ReturnedBuild(c) /\ ExitCode(c) # 0 /\ SoOnDisk(c)
        /\ Get(build[c]).success = FALSE
        /\ Get(build[c]).programSoBase64 = Some(<<31, 52, 21, 12, 17, 32, 64, 64>>)

\* C2: every build result returned has success true exactly when `anchor build`
\* exited zero, and carries the stdout and stderr the subprocess produced,
\* whatever happened during the artifact probe and read.
C2_SuccessIsZeroExit ==
    \A c \in Calls :
        ReturnedBuild(c) =>
            /\ Get(build[c]).success = (ExitCode(c) = 0)
            /\ Get(build[c]).stdout = Get(proc[c]).stdout
            /\ Get(build[c]).stderr = Get(proc[c]).stderr

\* C3: for a zero and for a nonzero exit alike, the build result names the
\* binary iff the .so file exists and names the keypair iff the keypair file
\* exists; a zero exit with no .so gives success = true and no artifact field.
C3_ProbeIndependentOfExit ==
    \A c \in Calls :
        ReturnedBuild(c) =>
            LET b == Get(build[c])
            IN  /\ IsSome(b.programSoPath) = SoOnDisk(c)
                /\ IsSome(b.programSoBase64) = SoOnDisk(c)
                /\ IsSome(b.keypairPath) = KeypairOnDisk(c)
                /\ (ExitCode(c) = 0 /\ ~SoOnDisk(c)) =>
                        (b.success /\ ~IsSome(b.programSoPath) /\ ~IsSome(b.programSoBase64))

\* C4: any two calls get distinct workspace directories, also when they are
\* issued with the same program name in the same millisecond.
C4_DistinctWorkspaces ==
    \A c, d \in Calls :
        (c # d /\ IsSome(slug[c]) /\ IsSome(slug[d])) =>
            workspaceDir(c) # workspaceDir(d)

-----------------------------------------------------------------------------
(* Properties of sanitizeProgramName.                                       *)

IsAlnum(ch) == ch \in LowerLetters \cup Digits
IsSeparator(ch) == ch = "_"

\* No two separators next to each other.
NoSeparatorRun(s) ==
    \A i \in 1..(Len(s) - 1) : ~(IsSeparator(s[i]) /\ IsSeparator(s[i + 1]))

NoSeparatorAtEnds(s) ==
    s # <<>> => (~IsSeparator(s[1]) /\ ~IsSeparator(s[Len(s)]))

\* The letters and digits of a name, lower case, in their order.
AlnumOf(name) == SelectSeq(ToLowerCase(name), IsAlnum)

Count(s, Test(_)) == Len(SelectSeq(s, Test))

\* The number of maximal runs of characters that are neither a letter, a
\* digit nor an underscore.
SymbolRuns(name) ==
    Cardinality({i \in 1..Len(name) :
        /\ ~IsAlnum(LowerChar(name[i])) /\ ~IsSeparator(name[i])
        /\ (i = 1 \/ IsAlnum(LowerChar(name[i - 1])) \/ IsSeparator(name[i - 1]))})

\* C5 as stated: the slug is lower case, has no run of separators left and no
\* separator at either end, and is the default slug when nothing else is left.
C5_EveryRunCollapsed ==
    sanPc = "output" =>
        /\ \A i \in 1..Len(sanOut) : IsAlnum(sanOut[i]) \/ IsSeparator(sanOut[i])
        /\ NoSeparatorRun(sanOut)
        /\ NoSeparatorAtEnds(sanOut)
        /\ (AlnumOf(sanName) = <<>>) => (sanOut = DefaultSlug)

\* C5, amended: the slug is not empty, holds only lower case letters, digits
\* and underscores, has no underscore at either end and keeps the name's
\* letters and digits in order; each run of characters other than letters,
\* digits and underscores gives one underscore and the underscores of the name
\* are kept, so a name without underscores gives a slug without a run of
\* them; a name with no letter or digit gives the default slug.
C5_SlugShape ==
    sanPc = "output" =>
        /\ sanOut # <<>>
        /\ \A i \in 1..Len(sanOut) : IsAlnum(sanOut[i]) \/ IsSeparator(sanOut[i])
        /\ NoSeparatorAtEnds(sanOut)
        /\ (AlnumOf(sanName) = <<>>) => (sanOut = DefaultSlug)
        /\ (AlnumOf(sanName) # <<>>) =>
              /\ SelectSeq(sanOut, IsAlnum) = AlnumOf(sanName)
              /\ (IsAlnum(LowerChar(sanName[1])) /\ IsAlnum(LowerChar(sanName[Len(sanName)]))) =>
                    Count(sanOut, IsSeparator) = Count(sanName, IsSeparator) + SymbolRuns(sanName)
        /\ (Count(sanName, IsSeparator) = 0) => NoSeparatorRun(sanOut)

C5_Witness ==
    /\ sanPc = "output"
    /\ sanName = <<"M", "_", " ", "a", "!">>
    /\ sanOut = <<"m", "_", "_", "a">>

-----------------------------------------------------------------------------
(* Properties of submitClientChallenge.                                     *)

Called == sPc \notin {"idle", "call"}
Finished == sPc = "done" /\ IsSome(sResult) /\ IsSome(response)

\* The content types that name JSON, and those that do not.
JsonTypes == {Some("application/json"), Some("application/json; charset=utf-8")}
OtherTypes == {None, Some("text/html"), Some("text/plain; charset=utf-8")}

\* The shapes of section 6: a boolean success with a results sequence; a
\* string error with a string message.
SuccessShape(p) ==
    /\ p.js = "object"
    /\ p.fields.success.js = "boolean"
    /\ p.fields.results.js = "array"

ErrorShape(p) ==
    /\ p.js = "object"
    /\ p.fields.error.js = "string"
    /\ p.fields.message.js = "string"

\* The envelope synthesized for a payload of neither shape.
Synthesized(p) ==
    Object(Undefined, Undefined, Str("Invalid response"),
           Str(IF p.js = "string" THEN p.raw ELSE JsonStringify(p)))

\* A JSON response whose body is a JSON document, and the document.
DecodedJson == Finished /\ Get(response).contentType \in JsonTypes
                        /\ \E p \in Payloads : JsonStringify(p) = Get(response).body
Decoded == CHOOSE p \in Payloads : JsonStringify(p) = Get(response).body

\* C6: a call with neither transactionBase64 nor transaction raises the
\* missing-payload error and no request was handed to fetch.
C6_MissingPayloadBeforeFetch ==
    (Called /\ ~IsSome(sInput.transactionBase64) /\ ~IsSome(sInput.transaction)) =>
        /\ sPc = "raised"
        /\ sError = Some("MissingPayload")
        /\ requests = <<>>
        /\ ~IsSome(response)

C6_Witness ==
    /\ Called /\ ~IsSome(sInput.transactionBase64) /\ ~IsSome(sInput.transaction)
    /\ sPc = "raised" /\ sError = Some("MissingPayload") /\ requests = <<>>

\* C7 as stated: whatever the status, a decoded payload with a boolean success
\* and a results sequence gives ok: true with that payload; otherwise one with
\* string error and message gives ok: false with that payload; anything else
\* gives ok: false with the synthesized envelope.
C7_ShapeAlone ==
    DecodedJson =>
        Get(sResult) =
            IF SuccessShape(Decoded)
            THEN [ok |-> TRUE, status |-> Get(response).status, body |-> Decoded]
            ELSE IF ErrorShape(Decoded)
            THEN [ok |-> FALSE, status |-> Get(response).status, body |-> Decoded]
            ELSE [ok |-> FALSE, status |-> Get(response).status, body |-> Synthesized(Decoded)]

\* C7, amended: a decoded payload with a boolean success and a results
\* sequence gives ok: true with that payload when the status is 2xx (also when
\* the success flag is false); otherwise (another status, or another shape) a
\* payload with string error and message gives ok: false with that payload;
\* anything else gives ok: false with the synthesized envelope that carries
\* the stringified payload.
C7_ShapeAfterStatus ==
    DecodedJson =>
        Get(sResult) =
            IF Get(response).status \in 200..299 /\ SuccessShape(Decoded)
            THEN [ok |-> TRUE, status |-> Get(response).status, body |-> Decoded]
            ELSE IF ErrorShape(Decoded)
            THEN [ok |-> FALSE, status |-> Get(response).status, body |-> Decoded]
            ELSE [ok |-> FALSE, status |-> Get(response).status, body |-> Synthesized(Decoded)]

\* A 2xx payload of both shapes with a false success flag, answered ok: true.
C7_Witness ==
    /\ DecodedJson
    /\ Get(response).status = 201
    /\ SuccessShape(Decoded) /\ ErrorShape(Decoded)
    /\ Decoded.fields.success.raw = "false"
    /\ Get(sResult).ok
    /\ Get(sResult).body = Decoded

\* C8: a response whose content type is not JSON gives, at every status,
\* ok: false with the envelope whose message is the raw text of the body, and
\* the body was not parsed as JSON.
C8_NonJsonGivesRawText ==
    (Finished /\ Get(response).contentType \in OtherTypes) =>
        /\ Get(sResult).ok = FALSE
        /\ Get(sResult).status = Get(response).status
        /\ Get(sResult).body =
              Object(Undefined, Undefined, Str("Invalid response"), Str(Get(response).body))
        /\ parsed = Some("text")

\* A 200 text/html response whose text is a well-formed success document.
C8_Witness ==
    /\ Finished
    /\ Get(response).contentType = Some("text/html")
    /\ Get(response).status = 200
    /\ Get(response).body = "{\"success\":true,\"results\":[]}"
    /\ Get(sResult).ok = FALSE
    /\ Get(sResult).body.fields.message = Str("{\"success\":true,\"results\":[]}")

\* C9: a 200 JSON response with a boolean success and a results array gives
\* ok: true, status 200 and the decoded payload as the body, unchanged.
C9_SuccessPassedThrough ==
    (DecodedJson /\ Get(response).status = 200 /\ SuccessShape(Decoded)) =>
        Get(sResult) = [ok |-> TRUE, status |-> 200, body |-> Decoded]

\* A 200 success document that carries more than success and results.
C9_Witness ==
    /\ DecodedJson /\ Get(response).status = 200 /\ SuccessShape(Decoded)
    /\ Decoded.fields.message.js # "undefined"
    /\ Get(sResult).ok
    /\ Get(sResult).body.fields.message = Decoded.fields.message

IsSuccessEnvelope(b) ==
    b.js = "object" /\ b.fields.success.js = "boolean" /\ b.fields.results.js = "array"

IsErrorEnvelope(b) ==
    b.js = "object" /\ b.fields.error.js = "string" /\ b.fields.message.js = "string"

\* C10: once fetch has resolved with a response, the call does not raise: it
\* can always go on to return, and what it returns has the status of the
\* response and a body that is a success envelope (ok: true) or an error
\* envelope with string error and message (ok: false).
C10_NeverRaisesAfterResponse ==
    IsSome(response) =>
        /\ sPc \in {"parsing", "done"}
        /\ ~IsSome(sError)
        /\ (sPc = "parsing") => ENABLED BodyDone
        /\ (sPc = "done") =>
              /\ IsSome(sResult)
              /\ Get(sResult).status = Get(response).status
              /\ IF Get(sResult).ok
                 THEN IsSuccessEnvelope(Get(sResult).body)
                 ELSE IsErrorEnvelope(Get(sResult).body)

\* A 500 application/json response whose body is no JSON document.
C10_Witness ==
    /\ Finished
    /\ Get(response).status = 500
    /\ Get(response).contentType = Some("application/json")
    /\ Get(response).body = "<html>502 Bad Gateway</html>"
    /\ Get(sResult).ok = FALSE
    /\ Get(sResult).body.fields.error = Str("Invalid JSON")

-----------------------------------------------------------------------------
(* Properties of the client's queries and of submitProgramChallenge.        *)

\* What call number n wrote into the log.
EventsOf(n) ==
    LET Mine(e) == e.call = n
    IN  SelectSeq(qLog, Mine)

FetchesOf(n) ==
    LET MyFetch(e) == e.call = n /\ e.ev = "fetch"
    IN  SelectSeq(qLog, MyFetch)

Answered(op) == qCall.op = op /\ IsSome(qResponse)

\* C11: getProgress, for the wallet's own address and for a supplied one,
\* answers a 404 by returning exactly {agent: null, challenges: []} without
\* raising and without reading the body; on every other status outside 2xx it
\* raises a transport error; on a 2xx status it reads the body and what it
\* returns is the decoded document.
C11_ProgressAbsentOn404 ==
    Answered("getProgress") =>
        LET r == Get(qResponse)
        IN  /\ r.status = 404 =>
                  /\ qPc = "returned"
                  /\ qResult = Some([NoResult EXCEPT !.body = Some(AbsentProgress)])
                  /\ qError = None
                  /\ ~qBodyRead
            /\ (r.status # 404 /\ ~QueryOk(r)) =>
                  /\ qPc = "raised"
                  /\ qError = Some("TransportError")
                  /\ qResult = None
                  /\ ~qBodyRead
            /\ (QueryOk(r) /\ IsSome(r.json)) =>
                  /\ qPc \in {"reading", "returned"}
                  /\ qError = None
            /\ (QueryOk(r) /\ qPc = "returned") =>
                  /\ qBodyRead
                  /\ qResult = Some([NoResult EXCEPT !.body = r.json])

\* A second call, getProgress for a supplied address, was answered 404 and
\* returned.
C11_Witness ==
    /\ Answered("getProgress")
    /\ IsSome(qCall.address)
    /\ qCount = 2
    /\ Get(qResponse).status = 404
    /\ IsSome(Get(qResponse).json)
    /\ qPc = "returned"

\* C12: listChallenges and getChallenge send exactly one request per call,
\* however the call ends; on every status outside 2xx, 404 included, they raise
\* a transport error and return nothing; what they return comes from the
\* response of the same call.
C12_OneRequestNoLeniency ==
    /\ \A n \in 1..qCount : Len(FetchesOf(n)) = 1
    /\ \A op \in {"listChallenges", "getChallenge"} :
        /\ qCall.op = op => Len(EventsOf(qCount)) = 1
        /\ Answered(op) =>
            LET r == Get(qResponse)
            IN  /\ ~QueryOk(r) =>
                      /\ qPc = "raised"
                      /\ qError = Some("TransportError")
                      /\ qResult = None
                /\ qPc = "returned" =>
                      /\ QueryOk(r)
                      /\ IsSome(r.json)
                      /\ qResult = Some(ResultOf(qCall, Get(r.json)))

\* A second listChallenges call, right after a first one, sent its own
\* request, was answered 404 and raised.
C12_Witness ==
    /\ Answered("listChallenges")
    /\ qCount = 2
    /\ Get(qResponse).status = 404
    /\ qPc = "raised"
    /\ Len(qLog) = 2
    /\ qLog[1].url = qLog[2].url

\* C13: submitProgramChallenge signs the artifact's bytes before it sends its
\* one request, a POST of a form with exactly the parts program (the bytes that
\* were signed), signature (the base58 text of that signature) and address
\* (the wallet's address), and returns the response as it is whatever the
\* status, never raising on it and never reading its body.
C13_SignedFormRawResponse ==
    qCall.op = "submitProgramChallenge" =>
        LET evs == EventsOf(qCount)
        IN  /\ Len(evs) = 2
            /\ evs[1].ev = "sign"
            /\ evs[1].bytes = qCall.programBuffer
            /\ evs[2].ev = "fetch"
            /\ evs[2].method = "POST"
            /\ LET form == evs[2].form
               IN  /\ [i \in 1..Len(form) |-> form[i].name]
                        = <<"program", "signature", "address">>
                   /\ form[1].blob = Some(evs[1].bytes)
                   /\ form[2].blob = None
                   /\ form[2].text = bs58Encode(evs[1].signature)
                   /\ form[3].blob = None
                   /\ form[3].text = address(ClientKeypair)
            /\ IsSome(qResponse) =>
                  /\ qPc = "returned"
                  /\ qResult = Some([NoResult EXCEPT !.raw = qResponse])
                  /\ qError = None
                  /\ ~qBodyRead

\* A program submission was answered 500 and returned that response.
C13_Witness ==
    /\ Answered("submitProgramChallenge")
    /\ Get(qResponse).status = 500
    /\ qPc = "returned"
    /\ Get(qResult).raw = qResponse

-----------------------------------------------------------------------------
(* Properties of SolanaWallet.                                              *)

Constructed == wPc \in {"ready", "failed"}

\* C14: when the secret decodes to bytes that are not exactly 64, the
\* constructor fails with the invalid-key error and there is no wallet; when
\* it decodes to exactly 64 bytes the length check passes: the invalid-key
\* error is not raised. (A secret that does not decode at all leaves no wallet
\* either.)
C14_LengthCheck ==
    Constructed =>
        /\ (IsSome(wDecoded) /\ Len(Get(wDecoded)) # KeyLen) =>
              /\ wPc = "failed"
              /\ wError = Some("InvalidKey")
              /\ wallet = None
        /\ (IsSome(wDecoded) /\ Len(Get(wDecoded)) = KeyLen) =>
              wError # Some("InvalidKey")
        /\ ~IsSome(wDecoded) =>
              /\ wPc = "failed"
              /\ wError = Some("NonBase58")
              /\ wallet = None
        /\ wPc = "ready" =>
              /\ IsSome(wallet)
              /\ Get(wallet).secretKey = Get(wDecoded)
              /\ Len(Get(wallet).secretKey) = KeyLen
              /\ wError = None

\* A secret of 63 bytes was refused.
C14_Witness ==
    /\ wPc = "failed"
    /\ IsSome(wDecoded)
    /\ Len(Get(wDecoded)) = KeyLen - 1
    /\ wError = Some("InvalidKey")

TransactionDone(d) == d.before.kind = "transaction"

\* The slots of the transaction that are not the wallet's are as they were,
\* and so are its message and its signers.
OnlyOwnSlotWritten(d) ==
    LET old == Get(d.before.tx)
        new == Get(d.after.tx)
    IN  /\ new.message = old.message
        /\ new.signerKeys = old.signerKeys
        /\ Len(new.signatures) = Len(old.signatures)
        /\ \A i \in 1..Len(old.signatures) :
              old.signerKeys[i] # Get(wallet).publicKey =>
                  new.signatures[i] = old.signatures[i]

\* The wallet's slot of the transaction after the operation.
OwnSignature(d) ==
    LET new == Get(d.after.tx)
    IN  {new.signatures[i] : i \in {j \in 1..Len(new.signatures) :
                                      new.signerKeys[j] = Get(wallet).publicKey}}

-----------------------------------------------------------------------------
(* Properties of loadConfig.                                                *)

\* C17: whenever API_URL is set and loadConfig returns, whatever the other
\* variables are, the REST base URL of the configuration is the value of
\* API_URL (without a trailing slash) and the MCP URL is that value followed
\* by /mcp.
C17_ApiUrlSetsBoth ==
    (cPc = "loaded" /\ IsSome(cEnv.API_URL)) =>
        /\ Get(cConfig).blueshiftApiUrl = StripSlash(Get(cEnv.API_URL))
        /\ Get(cConfig).blueshiftMcpUrl = StripSlash(Get(cEnv.API_URL)) \o "/mcp"

-----------------------------------------------------------------------------
(* Further properties of createAnchorProgram.                               *)

\* `anchor init` of call c succeeded: the skeleton it generates is on disk.
Scaffolded(c) ==
    /\ IsSome(slug[c])
    /\ existsSync(disk, libRsPath(workspaceDir(c), Get(scaffoldArg[c])))
    /\ existsSync(disk, programCargoPath(workspaceDir(c), Get(scaffoldArg[c])))

PastScaffold == {"writeLib", "writeCargo", "build", "readTry", "readCatch", "done"}

BuildInvoked == {"build", "readTry", "readCatch", "done"}

\* The entries of files for the sources of call c.
LibEntry(c) ==
    [path |-> [file |-> "programs/<slug>/src/lib.rs", name |-> Get(slug[c])],
     content |-> Get(options[c]).libRs]

CargoEntry(c) ==
    [path |-> [file |-> "programs/<slug>/Cargo.toml", name |-> Get(slug[c])],
     content |-> Get(options[c]).cargoToml]

\* C16: a call whose `anchor init` failed has raised and is over: it wrote no
\* source file, never started `anchor build`, probed no artifact and has no
\* build result; and a call gets to writing sources, to the build or to a
\* result only when its `anchor init` succeeded.
C16_ScaffoldFailureStopsTheCall ==
    \A c \in Calls :
        /\ raised[c] = Some("ScaffoldFailed") =>
              /\ pc[c] = "raised"
              /\ files[c] = <<>>
              /\ proc[c] = None
              /\ cap[c] = NoCap
              /\ build[c] = None
              /\ \A p \in DOMAIN disk : p.ws # workspaceDir(c)
        /\ (pc[c] \in PastScaffold \/ files[c] # <<>> \/ IsSome(proc[c])
            \/ IsSome(build[c])) => Scaffolded(c)

\* `anchor init` failed in a call that found the output root in place.
C16_Witness ==
    /\ raised["c1"] = Some("ScaffoldFailed")
    /\ pc["c1"] = "raised"
    /\ IsSome(scaffoldArg["c1"])
    /\ rootExists

\* C18: `anchor build` is started only after `anchor init` succeeded and
\* lib.rs and then Cargo.toml were overwritten with the caller's contents; a
\* call in which a write failed has raised without starting the build; and
\* the files of every call that returns are exactly two entries, lib.rs and
\* then Cargo.toml, each with its path relative to the workspace and the
\* caller's content.
C18_BuildAfterBothWrites ==
    \A c \in Calls :
        /\ (pc[c] \in BuildInvoked \/ IsSome(proc[c]) \/ IsSome(build[c])) =>
              /\ Scaffolded(c)
              /\ files[c] = <<LibEntry(c), CargoEntry(c)>>
              /\ disk[libRsPath(workspaceDir(c), Get(slug[c]))] = Get(options[c]).libRs
              /\ disk[programCargoPath(workspaceDir(c), Get(slug[c]))]
                    = Get(options[c]).cargoToml
        /\ (pc[c] = "writeCargo" \/ Len(files[c]) = 1) =>
              /\ files[c] = <<LibEntry(c)>>
              /\ disk[libRsPath(workspaceDir(c), Get(slug[c]))] = Get(options[c]).libRs
        /\ (pc[c] = "raised" /\ Len(files[c]) < 2) =>
              /\ proc[c] = None
              /\ build[c] = None
              /\ IsSome(raised[c])
        /\ pc[c] = "done" =>
              /\ Returned(c).files = <<LibEntry(c), CargoEntry(c)>>
              /\ Returned(c).files[1].path
                    = RelativePath(Returned(c).workspaceDir,
                                   libRsPath(Returned(c).workspaceDir, Get(slug[c])))
              /\ Returned(c).files[2].path
                    = RelativePath(Returned(c).workspaceDir,
                                   programCargoPath(Returned(c).workspaceDir, Get(slug[c])))

\* A call returned, after both writes and a build that exited nonzero.
C18_Witness ==
    /\ pc["c1"] = "done"
    /\ Len(files["c1"]) = 2
    /\ IsSome(proc["c1"])
    /\ Get(proc["c1"]).exit = 1
    /\ Get(options["c1"]).libRs = "libB"
    /\ Get(options["c1"]).cargoToml = "tomlA"

\* C20: in every build result programSoPath is there exactly when
\* programSoBase64 is, errorMessage is there exactly when success is false,
\* and the path of the binary is target/deploy/<slug>.so inside the call's own
\* workspace directory, with the slug that was given to `anchor init`, the
\* directory being the one the call returns.
C20_ResultConsistent ==
    \A c \in Calls :
        IsSome(build[c]) =>
            LET b == Get(build[c])
            IN  /\ IsSome(b.programSoPath) <=> IsSome(b.programSoBase64)
                /\ IsSome(b.errorMessage) <=> ~b.success
                /\ IsSome(b.programSoPath) =>
                      /\ Get(b.programSoPath).ws = Returned(c).workspaceDir
                      /\ Get(b.programSoPath).ws = workspaceDirOf(Get(scaffoldArg[c]))
                      /\ Get(b.programSoPath).file = "target/deploy/<slug>.so"
                      /\ Get(b.programSoPath).name = Get(scaffoldArg[c])
                      /\ existsSync(disk, Get(b.programSoPath))
                /\ IsSome(b.keypairPath) =>
                      /\ Get(b.keypairPath).ws = Returned(c).workspaceDir
                      /\ Get(b.keypairPath).name = Get(scaffoldArg[c])

\* A failed build returned with the binary it left behind.
C20_Witness ==
    /\ pc["c1"] = "done"
    /\ IsSome(build["c1"])
    /\ ~Get(build["c1"]).success
    /\ IsSome(Get(build["c1"]).errorMessage)
    /\ IsSome(Get(build["c1"]).programSoPath)
    /\ IsSome(Get(build["c1"]).programSoBase64)

-----------------------------------------------------------------------------
(* A further property of submitClientChallenge.                             *)

GivenBase64 == IsSome(sInput.transactionBase64) /\ Get(sInput.transactionBase64) # ""

\* C19: when a non-empty transactionBase64 is given, the request carries it
\* unchanged and the wallet signs nothing, a transaction object given along
\* with it staying unsigned; when only a transaction is given (or the
\* transactionBase64 is empty), the wallet signs once, and the one request
\* sent carries the base64 serialization of the signed transaction.
C19_OnePayloadSource ==
    Called =>
        /\ GivenBase64 =>
              /\ signCount = 0
              /\ Len(requests) = 1
              /\ requests[1].body.transaction = Get(sInput.transactionBase64)
              /\ IsSome(sInput.transaction) => ~Get(sInput.transaction).signed
        /\ (~GivenBase64 /\ IsSome(sInput.transaction)) =>
              /\ signCount = 1
              /\ Len(requests) <= 1
              /\ requests = <<>> => (sPc = "raised" /\ sError = Some("SignFailed"))
              /\ requests # <<>> =>
                    /\ Get(sInput.transaction).signed
                    /\ requests[1].body.transaction
                          = SerializeBase64(Get(sInput.transaction))

\* A call given both a base64 payload and a transaction object was answered.
C19_Witness ==
    /\ sPc = "done"
    /\ GivenBase64
    /\ IsSome(sInput.transaction)
    /\ Get(sInput.transaction).walletIsSigner
    /\ Len(requests) = 1
    /\ signCount = 0

====
